---- MODULE Spec2Model ----
(***************************************************************************)
(* Change tracking of the chronicle note editor: the LCS diff of the       *)
(* unsaved layer (computeChangedLines, computeEditScript,                  *)
(* buildUnsavedDiff), the unified-diff parser of the uncommitted layer     *)
(* (parseDiffLineNumbers, extractHunkForLine) and the line-status merge    *)
(* of the App component.                                                   *)
(*                                                                         *)
(* A string is a sequence of one-character strings; "\n" is the line       *)
(* break.  Indices of the source are 0-based and are kept 0-based in the   *)
(* values of the model; At(s, k) reads s[k] of the source.                 *)
(***************************************************************************)
EXTENDS Integers, Sequences, FiniteSets, TLC

VARIABLES
    savedContent,     \* App state savedContent: the baseline body
    currentContent,   \* contentRef.current / textarea value: the current body
    diff,             \* optional result of computeChangedLines
    ops,              \* edit script of the last buildUnsavedDiff call
    hunks,            \* hunks of the last buildUnsavedDiff call
    query,            \* optional arguments (bodyLine, isDeletion) of that call
    hunkText,         \* its result: an optional string
    reparsed,         \* optional parseDiffLineNumbers(hunkText)
    lcsSetsOf,        \* optional locals lcsA, lcsB of the last computeChangedLines
    gitHunks,         \* the hunks of the working-tree diff git holds
    gitFramed,        \* its text has file headers and a final line break
    frontmatterRaw,   \* App state frontmatterRaw
    uncommittedDiff,  \* App state uncommittedDiff
    gitParsed,        \* optional parseDiffLineNumbers(resp.diff_text)
    uncommittedLines,     \* App state uncommittedLines
    uncommittedDeleted,   \* App state uncommittedDeleted
    click,            \* optional line number of the last uncommitted click
    diffPopup,        \* its optional hunk text (diffPopup.lines)
    currentPath,      \* App state currentPath: the optional open note
    unsavedLines,     \* App state unsavedLines
    unsavedDeleted,   \* App state unsavedDeleted
    unsavedTimer,     \* unsavedTimerRef.current: the id of the last timer set
    timeouts,         \* the callbacks of setTimeout that are still pending
    saving,           \* the optional saveNote request in flight
    fetching,         \* frontmatter arguments of the gitWorkingDiff requests in flight
    highlighted,      \* optional result of the last highlighter call
    pc                \* position in the scenario of the specification

unsavedVars == <<savedContent, currentContent, diff, ops, hunks, query,
                 hunkText, reparsed, lcsSetsOf>>

gitVars == <<gitHunks, gitFramed, frontmatterRaw, uncommittedDiff, gitParsed,
             uncommittedLines, uncommittedDeleted, click, diffPopup>>

appVars == <<currentPath, unsavedLines, unsavedDeleted, unsavedTimer, timeouts,
             saving,
             fetching, highlighted>>

vars == <<unsavedVars, gitVars, appVars, highlighted, pc>>

\* An optional value (T | null of the source): None or Some(x).
None == <<>>

Some(x) == <<x>>

IsNone(o) == Len(o) = 0

ValueOf(o) == o[1]

(* ------------------------------ bounds -------------------------------- *)

\* Documents over LineAlphabet have up to MaxLines lines; the longer documents
\* that several hunks need are over WordAlphabet.
MaxLines == 2
MaxLongSavedLines == 3
MaxLongCurrentLines == 5
\* Lines of the note bodies the App component is driven with.
MaxNoteLines == 2
\* Body lines of a hunk of the working-tree diff; line numbers clicked.
MaxBodyLines == 2
MaxClickLine == 12
\* Lines of a diff text put together from header, near-header and body lines.
MaxRawLines == 4
\* Characters of a highlighted line; lines of a highlighted document.
MaxHlLineLen == 4
MaxHlDocLines == 4

(* ------------------------- strings and arrays ------------------------- *)

NL == "\n"

At(s, k) == s[k + 1]

Max(x, y) == IF x >= y THEN x ELSE y

Reverse(s) == [k \in 1..Len(s) |-> s[Len(s) + 1 - k]]

RECURSIVE SplitFrom(_, _, _, _)
SplitFrom(s, k, cur, acc) ==
    IF k > Len(s) THEN Append(acc, cur)
    ELSE IF s[k] = NL THEN SplitFrom(s, k + 1, <<>>, Append(acc, cur))
    ELSE SplitFrom(s, k + 1, Append(cur, s[k]), acc)

\* String.prototype.split("\n"): always at least one segment.
Split(s) == SplitFrom(s, 1, <<>>, <<>>)

RECURSIVE Join(_)
\* Array.prototype.join("\n")
Join(lines) ==
    IF Len(lines) = 0 THEN <<>>
    ELSE IF Len(lines) = 1 THEN lines[1]
    ELSE lines[1] \o <<NL>> \o Join(Tail(lines))

StartsWith(s, p) == Len(s) >= Len(p) /\ \A k \in 1..Len(p) : s[k] = p[k]

(* --------------------------- computeEditScript ------------------------ *)

Uint16Modulus == 65536

Uint16(x) == x % Uint16Modulus

RECURSIVE FillRow(_, _, _, _, _)
\* One row of the LCS table: row holds dp[i][0..j-1], prevRow is dp[i-1].
FillRow(ai, b, prevRow, j, row) ==
    IF j > Len(b) THEN row
    ELSE LET v == IF ai = b[j] THEN Uint16(prevRow[j] + 1)
                  ELSE Max(prevRow[j + 1], row[j])
         IN  FillRow(ai, b, prevRow, j + 1, Append(row, v))

RECURSIVE FillTable(_, _, _, _)
FillTable(a, b, i, rows) ==
    IF i > Len(a) THEN rows
    ELSE FillTable(a, b, i + 1,
                   Append(rows, FillRow(a[i], b, rows[i], 1, <<0>>)))

\* dp of the source: LcsTable(a, b)[i + 1][j + 1] is dp[i][j].
LcsTable(a, b) == FillTable(a, b, 1, <<[j \in 1..(Len(b) + 1) |-> 0]>>)

Dp(dp, i, j) == dp[i + 1][j + 1]

OpEqual(ai, bi) == [type |-> "equal", aIdx |-> ai, bIdx |-> bi]
OpInsert(bi) == [type |-> "insert", bIdx |-> bi]
OpDelete(ai) == [type |-> "delete", aIdx |-> ai]

RECURSIVE EditBacktrack_diagonalByTable(_, _, _, _, _, _)
\* EditBacktrack taking the diagonal step where the table grows by one
\* along the diagonal, without comparing the two lines.
EditBacktrack_diagonalByTable(a, b, dp, i, j, acc) ==
    IF ~(i > 0 \/ j > 0) THEN acc
    ELSE IF i > 0 /\ j > 0 /\ Dp(dp, i, j) = Dp(dp, i - 1, j - 1) + 1
         THEN EditBacktrack_diagonalByTable(a, b, dp, i - 1, j - 1,
                                            Append(acc, OpEqual(i - 1, j - 1)))
    ELSE IF j > 0 /\ (i = 0 \/ Dp(dp, i, j - 1) >= Dp(dp, i - 1, j))
         THEN EditBacktrack_diagonalByTable(a, b, dp, i, j - 1,
                                            Append(acc, OpInsert(j - 1)))
    ELSE EditBacktrack_diagonalByTable(a, b, dp, i - 1, j,
                                       Append(acc, OpDelete(i - 1)))

RECURSIVE EditBacktrack(_, _, _, _, _, _)
\* The while loop of computeEditScript; acc is ops in push order.
EditBacktrack(a, b, dp, i, j, acc) ==
    IF ~(i > 0 \/ j > 0) THEN acc
    ELSE IF i > 0 /\ j > 0 /\ a[i] = b[j]
         THEN EditBacktrack(a, b, dp, i - 1, j - 1,
                            Append(acc, OpEqual(i - 1, j - 1)))
    ELSE IF j > 0 /\ (i = 0 \/ Dp(dp, i, j - 1) >= Dp(dp, i - 1, j))
         THEN EditBacktrack(a, b, dp, i, j - 1, Append(acc, OpInsert(j - 1)))
    ELSE EditBacktrack(a, b, dp, i - 1, j, Append(acc, OpDelete(i - 1)))

\* computeEditScript without its final ops.reverse().
computeEditScript_noReverse(a, b) ==
    EditBacktrack(a, b, LcsTable(a, b), Len(a), Len(b), <<>>)

computeEditScript(a, b) ==
    Reverse(EditBacktrack(a, b, LcsTable(a, b), Len(a), Len(b), <<>>))

(* -------------------- buildUnsavedDiff: hunk grouping ----------------- *)

ContextLines == 3

NoHunk == [cur |-> <<>>, bStart |-> -1, bEnd |-> -1, ctx |-> 0]

MkHunk(g) == [ops |-> g.cur, bStart |-> g.bStart, bEnd |-> g.bEnd]

RECURSIVE LeadingContext(_, _, _, _)
\* for (ci = ctxStart; ci < oi; ci++): push the equal ops before op oi.
LeadingContext(script, ci, oi, g) ==
    IF ci >= oi THEN g
    ELSE LET cop == At(script, ci)
         IN  IF cop.type = "equal"
             THEN LeadingContext(script, ci + 1, oi,
                     [g EXCEPT !.cur = Append(@, cop),
                               !.bStart = IF @ < 0 THEN cop.bIdx ELSE @,
                               !.bEnd = cop.bIdx])
             ELSE LeadingContext(script, ci + 1, oi, g)

\* The look-ahead of the delete-only branch finding nothing.
NextBIdx_nothingFound(script, ni, fallback) == fallback

RECURSIVE NextBIdx(_, _, _)
\* for (ni = oi + 1; ...): bIdx of the next equal or insert op, else fallback.
NextBIdx(script, ni, fallback) ==
    IF ni >= Len(script) THEN fallback
    ELSE LET nop == At(script, ni)
         IN  IF nop.type = "equal" \/ nop.type = "insert" THEN nop.bIdx
             ELSE NextBIdx(script, ni + 1, fallback)

\* Body of the loop for a non-equal op at position oi.
GroupChange(script, oi, g, bLen) ==
    LET op == At(script, oi)
        g1 == IF Len(g.cur) = 0
              THEN LeadingContext(script, Max(0, oi - ContextLines), oi, g)
              ELSE g
        g2 == [g1 EXCEPT !.ctx = 0, !.cur = Append(@, op)]
    IN  IF op.type = "insert"
        THEN [g2 EXCEPT !.bStart = IF @ < 0 THEN op.bIdx ELSE @,
                        !.bEnd = op.bIdx]
        ELSE IF g2.bStart < 0
             THEN LET anchor == NextBIdx(script, oi + 1, bLen)
                  IN  [g2 EXCEPT !.bStart = anchor, !.bEnd = anchor]
             ELSE g2

RECURSIVE GroupLoop(_, _, _, _, _)
\* for (oi = 0; oi < ops.length; oi++); result: <<hunks, open hunk state>>.
GroupLoop(script, oi, g, done, bLen) ==
    IF oi >= Len(script) THEN <<done, g>>
    ELSE LET op == At(script, oi)
         IN  IF op.type = "equal"
             THEN IF Len(g.cur) > 0
                  THEN LET g1 == [g EXCEPT !.ctx = @ + 1,
                                           !.cur = Append(@, op),
                                           !.bEnd = op.bIdx]
                       IN  IF g1.ctx >= ContextLines
                           THEN GroupLoop(script, oi + 1, NoHunk,
                                          Append(done, MkHunk(g1)), bLen)
                           ELSE GroupLoop(script, oi + 1, g1, done, bLen)
                  ELSE GroupLoop(script, oi + 1, g, done, bLen)
             ELSE GroupLoop(script, oi + 1,
                            GroupChange(script, oi, g, bLen), done, bLen)

\* groupHunks without the flush of the hunk left open at the end of the ops.
groupHunks_noFinalFlush(script, bLen) ==
    GroupLoop(script, 0, NoHunk, <<>>, bLen)[1]

\* The hunks array of buildUnsavedDiff, final flush included.
groupHunks(script, bLen) ==
    LET r == GroupLoop(script, 0, NoHunk, <<>>, bLen)
        done == r[1]
        g == r[2]
    IN  IF Len(g.cur) > 0 /\ (\E k \in 1..Len(g.cur) : g.cur[k].type # "equal")
        THEN Append(done, MkHunk(g))
        ELSE done

HunkCovers(h, targetBIdx, isDeletion) ==
    IF isDeletion
    THEN targetBIdx >= h.bStart - 1 /\ targetBIdx <= h.bEnd + 1
    ELSE targetBIdx >= h.bStart /\ targetBIdx <= h.bEnd

RECURSIVE FirstCovering(_, _, _, _)
\* for (const h of hunks) ... break: index of the matched hunk, 0 if none.
FirstCovering(hs, k, targetBIdx, isDeletion) ==
    IF k > Len(hs) THEN 0
    ELSE IF HunkCovers(hs[k], targetBIdx, isDeletion) THEN k
    ELSE FirstCovering(hs, k + 1, targetBIdx, isDeletion)

matchedHunk(hs, bodyLine, isDeletion) ==
    FirstCovering(hs, 1, bodyLine - 1, isDeletion)

RenderOp(op, a, b) ==
    IF op.type = "equal" THEN <<" ">> \o At(b, op.bIdx)
    ELSE IF op.type = "delete" THEN <<"-">> \o At(a, op.aIdx)
    ELSE <<"+">> \o At(b, op.bIdx)

renderHunk(h, a, b) == Join([k \in 1..Len(h.ops) |-> RenderOp(h.ops[k], a, b)])

\* The lookup and the rendering of buildUnsavedDiff, given its hunks.
hunkTextFor(hs, a, b, bodyLine, isDeletion) ==
    LET k == matchedHunk(hs, bodyLine, isDeletion)
    IN  IF k = 0 THEN None
        ELSE IF Len(hs[k].ops) > 0 THEN Some(renderHunk(hs[k], a, b))
        ELSE None

buildUnsavedDiff(saved, current, bodyLine, isDeletion) ==
    LET a == Split(saved)
        b == Split(current)
    IN  hunkTextFor(groupHunks(computeEditScript(a, b), Len(b)), a, b,
                    bodyLine, isDeletion)

(* -------------------------- computeChangedLines ----------------------- *)

LcsThreshold == 4000000

NoMatch == [lcsA |-> {}, lcsB |-> {}]

RECURSIVE GreedyPos_noLastA(_, _, _, _)
\* GreedyPos without the test pos > lastA: the first position of x in a.
GreedyPos_noLastA(a, x, lastA, pos) ==
    IF pos >= Len(a) THEN -1
    ELSE IF At(a, pos) = x THEN pos
    ELSE GreedyPos_noLastA(a, x, lastA, pos + 1)

RECURSIVE GreedyPos(_, _, _, _)
\* for (const pos of positions) if (pos > lastA): the earliest position of
\* line x in a that is greater than lastA, or -1.
GreedyPos(a, x, lastA, pos) ==
    IF pos >= Len(a) THEN -1
    ELSE IF pos > lastA /\ At(a, pos) = x THEN pos
    ELSE GreedyPos(a, x, lastA, pos + 1)

RECURSIVE GreedyLoop(_, _, _, _, _)
\* Greedy LCS for large files: for (j = 0; j < m; j++).
GreedyLoop(a, b, j, lastA, acc) ==
    IF j >= Len(b) THEN acc
    ELSE LET pos == GreedyPos(a, At(b, j), lastA, 0)
         IN  IF pos < 0 THEN GreedyLoop(a, b, j + 1, lastA, acc)
             ELSE GreedyLoop(a, b, j + 1, pos,
                             [lcsA |-> acc.lcsA \cup {pos},
                              lcsB |-> acc.lcsB \cup {j}])

lcsGreedy(a, b) == GreedyLoop(a, b, 0, -1, NoMatch)

RECURSIVE LcsBacktrack_wrongWay(_, _, _, _, _, _)
\* The backtrack stepping towards the smaller table value.
LcsBacktrack_wrongWay(a, b, dp, i, j, acc) ==
    IF ~(i > 0 /\ j > 0) THEN acc
    ELSE IF a[i] = b[j]
         THEN LcsBacktrack_wrongWay(a, b, dp, i - 1, j - 1,
                                    [lcsA |-> acc.lcsA \cup {i - 1},
                                     lcsB |-> acc.lcsB \cup {j - 1}])
    ELSE IF Dp(dp, i - 1, j) < Dp(dp, i, j - 1)
         THEN LcsBacktrack_wrongWay(a, b, dp, i - 1, j, acc)
    ELSE LcsBacktrack_wrongWay(a, b, dp, i, j - 1, acc)

RECURSIVE LcsBacktrack_tieWalksA(_, _, _, _, _, _)
\* The backtrack decrementing i when the two adjacent table values are equal.
LcsBacktrack_tieWalksA(a, b, dp, i, j, acc) ==
    IF ~(i > 0 /\ j > 0) THEN acc
    ELSE IF a[i] = b[j]
         THEN LcsBacktrack_tieWalksA(a, b, dp, i - 1, j - 1,
                                     [lcsA |-> acc.lcsA \cup {i - 1},
                                      lcsB |-> acc.lcsB \cup {j - 1}])
    ELSE IF Dp(dp, i - 1, j) >= Dp(dp, i, j - 1)
         THEN LcsBacktrack_tieWalksA(a, b, dp, i - 1, j, acc)
    ELSE LcsBacktrack_tieWalksA(a, b, dp, i, j - 1, acc)

RECURSIVE LcsBacktrack(_, _, _, _, _, _)
\* Standard LCS DP: while (i > 0 && j > 0).
LcsBacktrack(a, b, dp, i, j, acc) ==
    IF ~(i > 0 /\ j > 0) THEN acc
    ELSE IF a[i] = b[j]
         THEN LcsBacktrack(a, b, dp, i - 1, j - 1,
                           [lcsA |-> acc.lcsA \cup {i - 1},
                            lcsB |-> acc.lcsB \cup {j - 1}])
    ELSE IF Dp(dp, i - 1, j) > Dp(dp, i, j - 1)
         THEN LcsBacktrack(a, b, dp, i - 1, j, acc)
    ELSE LcsBacktrack(a, b, dp, i, j - 1, acc)

lcsExact(a, b) == LcsBacktrack(a, b, LcsTable(a, b), Len(a), Len(b), NoMatch)

\* The branch on n * m of computeChangedLines.
lcsSets(a, b) ==
    IF Len(a) * Len(b) > LcsThreshold THEN lcsGreedy(a, b) ELSE lcsExact(a, b)

changedOf(lcsB, m) == {j + 1 : j \in {x \in 0..(m - 1) : x \notin lcsB}}

RECURSIVE SkipUnmatched(_, _, _)
\* while (bPos < m && !lcsB.has(bPos)) bPos++
SkipUnmatched(lcsB, m, bPos) ==
    IF bPos < m /\ bPos \notin lcsB THEN SkipUnmatched(lcsB, m, bPos + 1)
    ELSE bPos

RECURSIVE DeletionWalk_noEndOfFile(_, _, _, _, _, _, _)
\* The walk without the "deletions at the end of the file" case.
DeletionWalk_noEndOfFile(lcs, n, m, ai, bPos, delRun, acc) ==
    IF ai >= n THEN acc
    ELSE IF ai \in lcs.lcsA
         THEN LET p == SkipUnmatched(lcs.lcsB, m, bPos)
              IN  DeletionWalk_noEndOfFile(lcs, n, m, ai + 1, p + 1, FALSE,
                                           IF delRun THEN acc \cup {p} ELSE acc)
    ELSE DeletionWalk_noEndOfFile(lcs, n, m, ai + 1, bPos, TRUE, acc)

RECURSIVE DeletionWalk(_, _, _, _, _, _, _)
\* for (ai = 0; ai < n; ai++) with bPos, delRun; then the end-of-file case.
DeletionWalk(lcs, n, m, ai, bPos, delRun, acc) ==
    IF ai >= n THEN (IF delRun THEN acc \cup {m} ELSE acc)
    ELSE IF ai \in lcs.lcsA
         THEN LET p == SkipUnmatched(lcs.lcsB, m, bPos)
              IN  DeletionWalk(lcs, n, m, ai + 1, p + 1, FALSE,
                               IF delRun THEN acc \cup {p} ELSE acc)
    ELSE DeletionWalk(lcs, n, m, ai + 1, bPos, TRUE, acc)

deletedAfterOf(lcs, n, m) == DeletionWalk(lcs, n, m, 0, 0, FALSE, {})

NoChanges == [changed |-> {}, deletedAfter |-> {}]

\* computeChangedLines without the identity short-circuit and with the
\* 1-based line number looked up in lcsB.
computeChangedLines_offByOne(saved, current) ==
    LET a == Split(saved)
        b == Split(current)
        lcs == lcsSets(a, b)
    IN  [changed |-> {j \in 1..Len(b) : j \notin lcs.lcsB},
         deletedAfter |-> deletedAfterOf(lcs, Len(a), Len(b))]

computeChangedLines(saved, current) ==
    IF saved = current THEN NoChanges
    ELSE LET a == Split(saved)
             b == Split(current)
             lcs == lcsSets(a, b)
         IN  [changed |-> changedOf(lcs.lcsB, Len(b)),
              deletedAfter |-> deletedAfterOf(lcs, Len(a), Len(b))]

(* ------------------------- unified-diff parsing ----------------------- *)

Digits == <<"0", "1", "2", "3", "4", "5", "6", "7", "8", "9">>

IsDigit(c) == \E d \in 1..Len(Digits) : Digits[d] = c

DigitValue(c) == (CHOOSE d \in 1..Len(Digits) : Digits[d] = c) - 1

RECURSIVE DigitsEnd(_, _)
\* \d+ read greedily from position p: the position after the last digit.
DigitsEnd(s, p) ==
    IF p <= Len(s) /\ IsDigit(s[p]) THEN DigitsEnd(s, p + 1) ELSE p

RECURSIVE parseInt(_)
\* parseInt(digits, 10)
parseInt(ds) ==
    IF Len(ds) = 0 THEN 0
    ELSE 10 * parseInt(SubSeq(ds, 1, Len(ds) - 1)) + DigitValue(ds[Len(ds)])

HasLit(s, p, lit) ==
    /\ p >= 1
    /\ p + Len(lit) - 1 <= Len(s)
    /\ \A k \in 1..Len(lit) : s[p + k - 1] = lit[k]

NoHeader == [ok |-> FALSE]

\* (?:,(\d+))? at position p: <<position after it, captured digits>>, the
\* digits empty when the group did not take part in the match;
\* position 0 when a ',' is there with no digit after it (the regex then
\* fails on the literal that follows the group).
OptCount(s, p) ==
    IF HasLit(s, p, <<",">>)
    THEN LET e == DigitsEnd(s, p + 1)
         IN  IF e = p + 1 THEN <<0, <<>>>> ELSE <<e, SubSeq(s, p + 1, e - 1)>>
    ELSE <<p, <<>>>>

\* line.match(/^@@ -\d+(?:,\d+)? \+(\d+)(?:,(\d+))? @@/): groups 1 and 2.
hunkMatch(line) ==
    IF ~HasLit(line, 1, <<"@", "@", " ", "-">>) THEN NoHeader
    ELSE LET e1 == DigitsEnd(line, 5)
             c1 == OptCount(line, e1)
         IN  IF e1 = 5 \/ c1[1] = 0 \/ ~HasLit(line, c1[1], <<" ", "+">>)
             THEN NoHeader
             ELSE LET s2 == c1[1] + 2
                      e2 == DigitsEnd(line, s2)
                      c2 == OptCount(line, e2)
                  IN  IF e2 = s2 \/ c2[1] = 0
                         \/ ~HasLit(line, c2[1], <<" ", "@", "@">>)
                      THEN NoHeader
                      ELSE [ok |-> TRUE,
                            g1 |-> SubSeq(line, s2, e2 - 1),
                            g2 |-> c2[2]]

ParseStart == [currentLine |-> 0, pendingDelete |-> FALSE,
               changed |-> {}, deletedAfter |-> {}]

\* ParseLine without the skip of lines before the first hunk header.
ParseLine_noSkip(st, line) ==
    LET h == hunkMatch(line)
    IN  IF h.ok
        THEN [st EXCEPT !.currentLine = parseInt(h.g1),
                        !.pendingDelete = FALSE]
        ELSE IF StartsWith(line, <<"+">>)
             THEN [st EXCEPT !.changed = @ \cup {st.currentLine},
                             !.pendingDelete = FALSE,
                             !.currentLine = @ + 1]
        ELSE IF StartsWith(line, <<"-">>)
             THEN [st EXCEPT !.pendingDelete = TRUE]
        ELSE [st EXCEPT !.deletedAfter = IF st.pendingDelete
                                         THEN @ \cup {st.currentLine - 1}
                                         ELSE @,
                        !.pendingDelete = FALSE,
                        !.currentLine = @ + 1]

\* ParseLine with removed lines advancing the new-file counter as well.
ParseLine_delAdvances(st, line) ==
    LET h == hunkMatch(line)
    IN  IF h.ok
        THEN [st EXCEPT !.currentLine = parseInt(h.g1),
                        !.pendingDelete = FALSE]
        ELSE IF st.currentLine = 0 THEN st
        ELSE IF StartsWith(line, <<"+">>)
             THEN [st EXCEPT !.changed = @ \cup {st.currentLine},
                             !.pendingDelete = FALSE,
                             !.currentLine = @ + 1]
        ELSE IF StartsWith(line, <<"-">>)
             THEN [st EXCEPT !.pendingDelete = TRUE,
                             !.currentLine = @ + 1]
        ELSE [st EXCEPT !.deletedAfter = IF st.pendingDelete
                                         THEN @ \cup {st.currentLine - 1}
                                         ELSE @,
                        !.pendingDelete = FALSE,
                        !.currentLine = @ + 1]

\* ParseLine with an added line leaving the pending-deletion flag as it is.
ParseLine_plusKeepsPending(st, line) ==
    LET h == hunkMatch(line)
    IN  IF h.ok
        THEN [st EXCEPT !.currentLine = parseInt(h.g1),
                        !.pendingDelete = FALSE]
        ELSE IF st.currentLine = 0 THEN st
        ELSE IF StartsWith(line, <<"+">>)
             THEN [st EXCEPT !.changed = @ \cup {st.currentLine},
                             !.currentLine = @ + 1]
        ELSE IF StartsWith(line, <<"-">>)
             THEN [st EXCEPT !.pendingDelete = TRUE]
        ELSE [st EXCEPT !.deletedAfter = IF st.pendingDelete
                                         THEN @ \cup {st.currentLine - 1}
                                         ELSE @,
                        !.pendingDelete = FALSE,
                        !.currentLine = @ + 1]

\* Body of the for loop of parseDiffLineNumbers for one line.
ParseLine(st, line) ==
    LET h == hunkMatch(line)
    IN  IF h.ok
        THEN [st EXCEPT !.currentLine = parseInt(h.g1),
                        !.pendingDelete = FALSE]
        ELSE IF st.currentLine = 0 THEN st
        ELSE IF StartsWith(line, <<"+">>)
             THEN [st EXCEPT !.changed = @ \cup {st.currentLine},
                             !.pendingDelete = FALSE,
                             !.currentLine = @ + 1]
        ELSE IF StartsWith(line, <<"-">>)
             THEN [st EXCEPT !.pendingDelete = TRUE]
        ELSE [st EXCEPT !.deletedAfter = IF st.pendingDelete
                                         THEN @ \cup {st.currentLine - 1}
                                         ELSE @,
                        !.pendingDelete = FALSE,
                        !.currentLine = @ + 1]

RECURSIVE ParseLoop(_, _, _)
ParseLoop(lines, k, st) ==
    IF k > Len(lines) THEN st
    ELSE ParseLoop(lines, k + 1, ParseLine(st, lines[k]))

parseDiffLineNumbers(diffText) ==
    LET st == ParseLoop(Split(diffText), 1, ParseStart)
    IN  [changed |-> st.changed,
         deletedAfter |-> IF st.pendingDelete
                          THEN st.deletedAfter \cup {st.currentLine - 1}
                          ELSE st.deletedAfter]

(* --------------------------- extractHunkForLine ----------------------- *)

IsFileHeader(line) ==
    \/ StartsWith(line, <<"d", "i", "f", "f", " ">>)
    \/ StartsWith(line, <<"-", "-", "-">>)
    \/ StartsWith(line, <<"+", "+", "+">>)
    \/ StartsWith(line, <<"i", "n", "d", "e", "x", " ">>)

RECURSIVE SplitHunks(_, _, _, _)
\* The first loop of extractHunkForLine; cur is the optional open hunk.
SplitHunks(lines, k, cur, acc) ==
    IF k > Len(lines) THEN acc \o cur
    ELSE LET line == lines[k]
             m == hunkMatch(line)
         IN  IF m.ok
             THEN SplitHunks(lines, k + 1,
                     Some([startNew |-> parseInt(m.g1),
                           countNew |-> IF Len(m.g2) > 0
                                        THEN parseInt(m.g2) ELSE 1,
                           lines |-> <<line>>]),
                     acc \o cur)
             ELSE IF ~IsNone(cur) /\ ~IsFileHeader(line)
                  THEN SplitHunks(lines, k + 1,
                                  [cur EXCEPT ![1].lines = Append(@, line)],
                                  acc)
                  ELSE SplitHunks(lines, k + 1, cur, acc)

diffHunks(diffText) == SplitHunks(Split(diffText), 1, None, <<>>)

\* HunkInRange without the one-line tolerance on either side.
HunkInRange_noTolerance(h, fileLine) ==
    LET end == h.startNew + Max(h.countNew, 1) - 1
    IN  fileLine >= h.startNew /\ fileLine <= end

\* The test of the second loop of extractHunkForLine.
HunkInRange(h, fileLine) ==
    LET end == h.startNew + Max(h.countNew, 1) - 1
    IN  fileLine >= h.startNew - 1 /\ fileLine <= end + 1

RECURSIVE FirstInRange(_, _, _)
FirstInRange(hs, k, fileLine) ==
    IF k > Len(hs) THEN 0
    ELSE IF HunkInRange(hs[k], fileLine) THEN k
    ELSE FirstInRange(hs, k + 1, fileLine)

\* The second loop of extractHunkForLine, given its hunks.
hunkForFileLine(hs, fileLine) ==
    LET k == FirstInRange(hs, 1, fileLine)
    IN  IF k = 0 THEN None ELSE Some(Join(hs[k].lines))

extractHunkForLine(diffText, bodyLine, fmLineCount) ==
    hunkForFileLine(diffHunks(diffText), bodyLine + fmLineCount)

(* ------------------- the unsaved layer as a state machine ------------- *)

\* The uncommitted layer before any diff has been fetched.
GitIdle ==
    /\ gitHunks = <<>>
    /\ gitFramed = FALSE
    /\ frontmatterRaw = <<>>
    /\ uncommittedDiff = <<>>
    /\ gitParsed = None
    /\ uncommittedLines = {}
    /\ uncommittedDeleted = {}
    /\ click = None
    /\ diffPopup = None

\* The App component as constructed, not yet used.
AppIdle ==
    /\ currentPath = None
    /\ unsavedLines = {}
    /\ unsavedDeleted = {}
    /\ unsavedTimer = None
    /\ timeouts = {}
    /\ saving = None
    /\ fetching = {}
    /\ highlighted = None

\* The unsaved layer with no note loaded.
UnsavedIdle ==
    /\ savedContent = <<>>
    /\ currentContent = <<>>
    /\ diff = None
    /\ ops = <<>>
    /\ hunks = <<>>
    /\ query = None
    /\ hunkText = None
    /\ reparsed = None
    /\ lcsSetsOf = None

\* Lines a document is made of: an empty line and two distinct words.
LineAlphabet == {<<>>, <<"a">>, <<"b">>}

RECURSIVE SeqsUpTo(_, _)
\* All sequences over S of length 1..n.
SeqsUpTo(S, n) ==
    IF n = 0 THEN {}
    ELSE LET shorter == SeqsUpTo(S, n - 1)
         IN  {<<x>> : x \in S} \cup shorter
             \cup {Append(t, x) : t \in shorter, x \in S}

\* Lines of the longer documents.
WordAlphabet == {<<"a">>, <<"b">>}

Documents(S, n) == {Join(ls) : ls \in SeqsUpTo(S, n)}

\* "a\nb\nc" edited to "a\nx\nc" and to "a\nc", a document of nine
\* distinct lines with its fifth line replaced, and a document with a line
\* added at its top and its fourth line removed.
ExamplePairs ==
    LET abc == Join(<<<<"a">>, <<"b">>, <<"c">>>>)
        nine == <<<<"a">>, <<"b">>, <<"c">>, <<"d">>, <<"e">>, <<"f">>,
                  <<"g">>, <<"h">>, <<"i">>>>
    IN  {<<abc, Join(<<<<"a">>, <<"x">>, <<"c">>>>)>>,
         <<abc, Join(<<<<"a">>, <<"c">>>>)>>,
         <<Join(nine), Join([nine EXCEPT ![5] = <<"x">>])>>,
         <<Join(<<<<"a">>, <<"b">>, <<"c">>, <<"x">>, <<"d">>>>),
           Join(<<<<"n">>, <<"a">>, <<"b">>, <<"c">>, <<"d">>>>)>>}

\* The (savedContent, currentContent) pairs the unsaved layer is run on.
ContentPairs ==
    (Documents(LineAlphabet, MaxLines) \X Documents(LineAlphabet, MaxLines))
    \cup (Documents(WordAlphabet, MaxLongSavedLines)
          \X Documents(WordAlphabet, MaxLongCurrentLines))
    \cup ExamplePairs

Init ==
    /\ \E p \in ContentPairs : savedContent = p[1] /\ currentContent = p[2]
    /\ diff = None
    /\ ops = <<>>
    /\ hunks = <<>>
    /\ query = None
    /\ hunkText = None
    /\ reparsed = None
    /\ lcsSetsOf = None
    /\ GitIdle
    /\ AppIdle
    /\ pc = "edited"

\* The debounce timer of handleSourceChange fires.
ComputeChangedLines ==
    /\ pc = "edited"
    /\ diff' = Some(computeChangedLines(savedContent, currentContent))
    /\ lcsSetsOf' = IF savedContent = currentContent THEN None
              ELSE Some(lcsSets(Split(savedContent), Split(currentContent)))
    /\ pc' = "diffed"
    /\ UNCHANGED <<savedContent, currentContent, ops, hunks, query, hunkText,
                   reparsed, gitVars, appVars>>

\* handleGutterClick on an unsaved marker: buildUnsavedDiff(savedContent,
\* currentText, lineNum, isDeletion).
\* The gutter offers lines 1..lineCount and the gaps 0..lineCount.
BuildUnsavedDiff ==
    /\ pc = "diffed"
    /\ \E a \in {Split(savedContent)}, b \in {Split(currentContent)} :
          \E script \in {computeEditScript(a, b)} :
             \E hs \in {groupHunks(script, Len(b))},
                bodyLine \in 0..Len(b), isDeletion \in BOOLEAN :
                   /\ ops' = script
                   /\ hunks' = hs
                   /\ query' = Some([bodyLine |-> bodyLine,
                                     isDeletion |-> isDeletion])
                   /\ hunkText' = hunkTextFor(hs, a, b, bodyLine, isDeletion)
    /\ pc' = "built"
    /\ UNCHANGED <<savedContent, currentContent, diff, reparsed, lcsSetsOf, gitVars,
                   appVars>>

\* The popup's text read back by the unified-diff parser.
ParseHunkText ==
    /\ pc = "built"
    /\ ~IsNone(hunkText)
    /\ reparsed' = Some(parseDiffLineNumbers(ValueOf(hunkText)))
    /\ pc' = "parsed"
    /\ UNCHANGED <<savedContent, currentContent, diff, ops, hunks, query,
                   hunkText, lcsSetsOf, gitVars, appVars>>

Next ==
    \/ ComputeChangedLines
    \/ BuildUnsavedDiff
    \/ ParseHunkText

Spec == Init /\ [][Next]_vars

(* ------------- computeChangedLines on its large-file branch ----------- *)

\* The branch taken when n * m exceeds LcsThreshold reads a and b only
\* through a[i], b[j] and their lengths, so it is run here on documents of
\* the model's size: pc = "large" stands for a pair beyond the threshold.
InitGreedy ==
    /\ \E p \in ContentPairs : savedContent = p[1] /\ currentContent = p[2]
    /\ diff = None
    /\ lcsSetsOf = None
    /\ ops = <<>>
    /\ hunks = <<>>
    /\ query = None
    /\ hunkText = None
    /\ reparsed = None
    /\ GitIdle
    /\ AppIdle
    /\ pc = "large"

\* computeChangedLines(saved, current) with the greedy LCS for large files.
ComputeChangedLinesGreedy ==
    /\ pc = "large"
    /\ IF savedContent = currentContent
       THEN diff' = Some(NoChanges) /\ lcsSetsOf' = None
       ELSE \E a \in {Split(savedContent)}, b \in {Split(currentContent)} :
               \E l \in {lcsGreedy(a, b)} :
                  /\ lcsSetsOf' = Some(l)
                  /\ diff' = Some([changed |-> changedOf(l.lcsB, Len(b)),
                                   deletedAfter |->
                                       deletedAfterOf(l, Len(a), Len(b))])
    /\ pc' = "diffedLarge"
    /\ UNCHANGED <<savedContent, currentContent, ops, hunks, query, hunkText,
                   reparsed, gitVars, appVars>>

NextGreedy == ComputeChangedLinesGreedy

SpecGreedy == InitGreedy /\ [][NextGreedy]_vars

(* -------------- the uncommitted layer as a state machine -------------- *)

RECURSIVE ToDigits(_)
\* Decimal digits of n >= 0, as git prints line numbers.
ToDigits(n) ==
    IF n < 10 THEN <<Digits[n + 1]>>
    ELSE ToDigits(n \div 10) \o <<Digits[(n % 10) + 1]>>

\* "start,count" of a hunk header; git leaves ",1" out.
RangeText(start, count) ==
    IF count = 1 THEN ToDigits(start)
    ELSE ToDigits(start) \o <<",">> \o ToDigits(count)

HeaderText(h) ==
    <<"@", "@", " ", "-">> \o RangeText(h.oldStart, h.oldCount)
    \o <<" ", "+">> \o RangeText(h.newStart, h.newCount)
    \o <<" ", "@", "@">>

BodyPrefix(kind) ==
    IF kind = "add" THEN "+" ELSE IF kind = "del" THEN "-" ELSE " "

BodyText(l) == <<BodyPrefix(l.kind)>> \o l.text

HunkLines(h) == <<HeaderText(h)>> \o [k \in 1..Len(h.body) |-> BodyText(h.body[k])]

RECURSIVE AllHunkLines(_)
AllHunkLines(hs) ==
    IF Len(hs) = 0 THEN <<>> ELSE HunkLines(hs[1]) \o AllHunkLines(Tail(hs))

FileHeaderLines ==
    << <<"d", "i", "f", "f", " ", "-", "-", "g", "i", "t", " ", "a", " ", "b">>,
       <<"i", "n", "d", "e", "x", " ", "1", ".", ".", "2">>,
       <<"-", "-", "-", " ", "a">>,
       <<"+", "+", "+", " ", "b">> >>

\* resp.diff_text of gitWorkingDiff for the hunks hs.
DiffText(hs, framed) ==
    IF Len(hs) = 0 THEN <<>>
    ELSE IF framed THEN Join(FileHeaderLines \o AllHunkLines(hs) \o << <<>> >>)
    ELSE Join(AllHunkLines(hs))

BodyKinds == {"ctx", "add", "del"}

CountKinds(body, kinds) == Cardinality({k \in 1..Len(body) : body[k] \in kinds})

\* Bodies of up to n lines with at least one added or removed line.
Bodies(n) ==
    {body \in SeqsUpTo(BodyKinds, n) : CountKinds(body, {"add", "del"}) > 0}

\* An empty range is printed with the line before it as its start.
HeaderStart(start, count) == IF count = 0 THEN start - 1 ELSE start

\* The hunk git prints for the body kinds at old line o and new line n.
GitHunk(o, n, kinds) ==
    LET oc == CountKinds(kinds, {"ctx", "del"})
        nc == CountKinds(kinds, {"ctx", "add"})
    IN  [oldStart |-> HeaderStart(o, oc), oldCount |-> oc,
         newStart |-> HeaderStart(n, nc), newCount |-> nc,
         body |-> [k \in 1..Len(kinds) |-> [kind |-> kinds[k], text |-> <<"x">>]]]

FirstStarts == {1, 9}

HunkGaps == {1, 3}

\* A hunk in which the line "--" (a removed line printed as "---") gives
\* way to the line "++" (printed as "+++") before a context line.
DashesHunk ==
    [oldStart |-> 1, oldCount |-> 2, newStart |-> 1, newCount |-> 2,
     body |-> << [kind |-> "del", text |-> <<"-", "-">>],
                 [kind |-> "add", text |-> <<"+", "+">>],
                 [kind |-> "ctx", text |-> <<"x">>] >>]

\* The working-tree diffs: no change, one hunk, or two hunks in file order.
GitDiffs ==
    LET bodies == Bodies(MaxBodyLines)
    IN  {<<>>, <<DashesHunk>>}
        \cup {<<GitHunk(s, s, b1)>> : s \in FirstStarts, b1 \in bodies}
        \cup {<<GitHunk(s, s, b1),
                GitHunk(s + CountKinds(b1, {"ctx", "del"}) + g,
                        s + CountKinds(b1, {"ctx", "add"}) + g, b2)>> :
                s \in FirstStarts, g \in HunkGaps, b1 \in bodies, b2 \in bodies}

FrontmatterTexts ==
    {<<>>, Join(<< <<"-", "-", "-">>, <<"t">>, <<"-", "-", "-">>, <<>> >>)}

\* frontmatter ? frontmatter.split("\n").length - 1 : 0
frontmatterLineCount(frontmatter) ==
    IF Len(frontmatter) > 0 THEN Len(Split(frontmatter)) - 1 ELSE 0

InitDiffText ==
    /\ UnsavedIdle
    /\ AppIdle
    /\ gitHunks \in GitDiffs
    /\ gitFramed \in BOOLEAN
    /\ frontmatterRaw \in FrontmatterTexts
    /\ uncommittedDiff = <<>>
    /\ gitParsed = None
    /\ uncommittedLines = {}
    /\ uncommittedDeleted = {}
    /\ click = None
    /\ diffPopup = None
    /\ pc = "loaded"

\* What fetchUncommittedLines(path, frontmatter) stores when gitWorkingDiff
\* answers with has_changes and diff_text.
fetchUncommittedLines(has_changes, diff_text, frontmatter) ==
    IF has_changes /\ Len(diff_text) > 0
    THEN LET d == parseDiffLineNumbers(diff_text)
             fmLineCount == frontmatterLineCount(frontmatter)
         IN  [parsed |-> Some(d),
              lines |-> {ln - fmLineCount :
                            ln \in {x \in d.changed : x - fmLineCount > 0}},
              deleted |-> {ln - fmLineCount :
                            ln \in {x \in d.deletedAfter : x - fmLineCount >= 0}},
              diff |-> diff_text]
    ELSE [parsed |-> None, lines |-> {}, deleted |-> {}, diff |-> <<>>]

\* fetchUncommittedLines(path, frontmatterRaw) of the loaded note.
FetchUncommittedLines ==
    /\ pc = "loaded"
    /\ \E r \in {fetchUncommittedLines(Len(gitHunks) > 0,
                                        DiffText(gitHunks, gitFramed),
                                        frontmatterRaw)} :
          /\ gitParsed' = r.parsed
          /\ uncommittedLines' = r.lines
          /\ uncommittedDeleted' = r.deleted
          /\ uncommittedDiff' = r.diff
    /\ pc' = "fetched"
    /\ UNCHANGED <<gitHunks, gitFramed, frontmatterRaw, click, diffPopup,
                   unsavedVars, appVars>>

\* handleGutterClick(lineNum, "uncommitted", ..): extractHunkForLine.
GutterClickUncommitted ==
    /\ pc = "fetched"
    /\ Len(uncommittedDiff) > 0
    /\ \E hs \in {diffHunks(uncommittedDiff)},
          fmLineCount \in {frontmatterLineCount(frontmatterRaw)},
          lineNum \in 0..MaxClickLine :
              /\ click' = Some(lineNum)
              /\ diffPopup' = hunkForFileLine(hs, lineNum + fmLineCount)
    /\ pc' = "clicked"
    /\ UNCHANGED <<gitHunks, gitFramed, frontmatterRaw, uncommittedDiff,
                   gitParsed, uncommittedLines, uncommittedDeleted,
                   unsavedVars, appVars>>

NextDiffText ==
    \/ FetchUncommittedLines
    \/ GutterClickUncommitted

SpecDiffText == InitDiffText /\ [][NextDiffText]_vars

(* ------------ the uncommitted layer on arbitrary diff text ------------ *)

\* Lines the parser tells apart: two hunk headers, two lines that fall short
\* of the header pattern (no closing "@@", a ',' without a count), and an
\* added, a removed and a context line.
RawLines ==
    { <<"@", "@", " ", "-", "1", " ", "+", "1", " ", "@", "@">>,
      <<"@", "@", " ", "-", "2", ",", "2", " ", "+", "3", ",", "2", " ", "@", "@">>,
      <<"@", "@", " ", "-", "1", " ", "+", "1">>,
      <<"@", "@", " ", "-", "1", ",", " ", "+", "1", " ", "@", "@">>,
      <<"+", "x">>,
      <<"-", "x">>,
      <<" ", "x">> }

\* resp.diff_text as any text of up to MaxRawLines such lines that opens with
\* a header or a line that falls short of one.
RawDiffTexts ==
    {Join(ls) : ls \in {t \in SeqsUpTo(RawLines, MaxRawLines) :
                            StartsWith(t[1], <<"@", "@">>)}}

InitRawDiff ==
    /\ UnsavedIdle
    /\ GitIdle
    /\ AppIdle
    /\ pc = "requested"

\* fetchUncommittedLines(path, frontmatterRaw) when gitWorkingDiff answers
\* has_changes with any such text.
FetchRawDiff ==
    /\ pc = "requested"
    /\ \E diff_text \in RawDiffTexts :
          \E r \in {fetchUncommittedLines(TRUE, diff_text, frontmatterRaw)} :
             /\ gitParsed' = r.parsed
             /\ uncommittedLines' = r.lines
             /\ uncommittedDeleted' = r.deleted
             /\ uncommittedDiff' = r.diff
    /\ pc' = "fetched"
    /\ UNCHANGED <<gitHunks, gitFramed, frontmatterRaw, click, diffPopup,
                   unsavedVars, appVars>>

NextRawDiff ==
    \/ FetchRawDiff
    \/ GutterClickUncommitted

SpecRawDiff == InitRawDiff /\ [][NextRawDiff]_vars

(* ----------------------- markdownHighlight.ts ------------------------- *)

\* text.slice(from, to) with 0-based from and exclusive to.
Slice(s, from, to) == SubSeq(s, from + 1, to)

Least(S) == CHOOSE k \in S : \A j \in S : k <= j

RECURSIVE ReplaceAll(_, _, _)
\* text.replace(/c/g, rep) for a one-character c.
ReplaceAll(text, c, rep) ==
    IF Len(text) = 0 THEN <<>>
    ELSE (IF text[1] = c THEN rep ELSE <<text[1]>>)
         \o ReplaceAll(Tail(text), c, rep)

escapeHtml(text) ==
    ReplaceAll(ReplaceAll(ReplaceAll(text, "&", <<"&", "a", "m", "p", ";">>),
                          "<", <<"&", "l", "t", ";">>),
               ">", <<"&", "g", "t", ";">>)

\* A tag is one element of the markup; text is one element per character.
SpanOpen(cls) == "<span class=\"" \o cls \o "\">"

SpanClose == "</span>"

wrap(cls, text) == <<SpanOpen(cls)>> \o escapeHtml(text) \o <<SpanClose>>

\* The least index >= from of s where c stands, or -1.
IndexOfFrom(s, c, from) ==
    LET S == {k \in from..(Len(s) - 1) : At(s, k) = c}
    IN  IF S = {} THEN -1 ELSE Least(S)

\* The least index >= from of s where c stands twice in a row, or -1.
IndexOfPairFrom(s, c, from) ==
    LET S == {k \in from..(Len(s) - 2) : At(s, k) = c /\ At(s, k + 1) = c}
    IN  IF S = {} THEN -1 ELSE Least(S)

\* The grave accent, which a string of this notation cannot hold.
Backtick == "GRAVE"

\* Length of the match of the code span rule, a grave accent, one or more
\* other characters and a grave accent, that starts at index i; 0 if none.
CodeInlineAt(s, i) ==
    IF i + 1 < Len(s) /\ At(s, i) = Backtick /\ At(s, i + 1) # Backtick
    THEN LET j == IndexOfFrom(s, Backtick, i + 2)
         IN  IF j < 0 THEN 0 ELSE j + 1 - i
    ELSE 0

\* Length of the match of /\[[^\]]*\]\([^)]*\)/ that starts at index i.
LinkAt(s, i) ==
    IF i < Len(s) /\ At(s, i) = "["
    THEN LET c == IndexOfFrom(s, "]", i + 1)
         IN  IF c < 0 \/ c + 1 >= Len(s) \/ At(s, c + 1) # "(" THEN 0
             ELSE LET p == IndexOfFrom(s, ")", c + 2)
                  IN  IF p < 0 THEN 0 ELSE p + 1 - i
    ELSE 0

\* Length of the match of /!\[[^\]]*\]\([^)]*\)/ that starts at index i.
ImageAt(s, i) ==
    IF i < Len(s) /\ At(s, i) = "!" /\ LinkAt(s, i + 1) > 0
    THEN 1 + LinkAt(s, i + 1)
    ELSE 0

\* Length of the match of /~~.+?~~/ that starts at index i.
StrikethroughAt(s, i) ==
    IF i + 1 < Len(s) /\ At(s, i) = "~" /\ At(s, i + 1) = "~"
    THEN LET j == IndexOfPairFrom(s, "~", i + 3)
         IN  IF j < 0 THEN 0 ELSE j + 2 - i
    ELSE 0

\* Length of the match of /(\*\*|__)(.+?)\1/ that starts at index i.
BoldAt(s, i) ==
    IF i + 1 < Len(s) /\ At(s, i) \in {"*", "_"} /\ At(s, i + 1) = At(s, i)
    THEN LET j == IndexOfPairFrom(s, At(s, i), i + 3)
         IN  IF j < 0 THEN 0 ELSE j + 2 - i
    ELSE 0

\* Length of the match of /(?<!\*)(\*|_)(?!\1)(.+?)(?<!\1)\1(?!\1)/ that
\* starts at index i.
ItalicAt(s, i) ==
    IF /\ i < Len(s)
       /\ At(s, i) \in {"*", "_"}
       /\ (i = 0 \/ At(s, i - 1) # "*")
       /\ (i + 1 >= Len(s) \/ At(s, i + 1) # At(s, i))
    THEN LET d == At(s, i)
             S == {k \in (i + 2)..(Len(s) - 1) :
                      /\ At(s, k) = d
                      /\ At(s, k - 1) # d
                      /\ (k + 1 >= Len(s) \/ At(s, k + 1) # d)}
         IN  IF S = {} THEN 0 ELSE Least(S) + 1 - i
    ELSE 0

\* INLINE_RULES: the css classes in priority order.
INLINE_RULES ==
    <<"md-code-inline", "md-image", "md-link", "md-strikethrough", "md-bold",
      "md-italic">>

RuleAt(r, s, i) ==
    CASE r = 1 -> CodeInlineAt(s, i)
      [] r = 2 -> ImageAt(s, i)
      [] r = 3 -> LinkAt(s, i)
      [] r = 4 -> StrikethroughAt(s, i)
      [] r = 5 -> BoldAt(s, i)
      [] r = 6 -> ItalicAt(s, i)

NoInlineMatch == [index |-> -1, length |-> 0, cls |-> ""]

\* The match of rule r that starts at index i of s.
MatchAt(r, s, i) ==
    [index |-> i, length |-> RuleAt(r, s, i), cls |-> INLINE_RULES[r]]

\* The leftmost of the matches that start at the indices S.
LeftmostMatch(r, s, S) ==
    IF S = {} THEN NoInlineMatch ELSE MatchAt(r, s, Least(S))

\* remaining.match(re) of rule r: its leftmost match.
RuleMatch(r, s) ==
    LeftmostMatch(r, s, {i \in 0..(Len(s) - 1) : RuleAt(r, s, i) > 0})

\* BetterMatch with every rule that matches replacing the best so far.
BetterMatch_lastRuleWins(m, best) ==
    IF m.index >= 0 THEN m ELSE best

\* if (m && m.index !== undefined && (!best || m.index < best.index))
BetterMatch(m, best) ==
    IF m.index >= 0 /\ (best.index < 0 \/ m.index < best.index)
    THEN m ELSE best

RECURSIVE BestMatch(_, _, _)
\* The for loop of highlightInline over INLINE_RULES from rule r on.
BestMatch(s, r, best) ==
    IF r > Len(INLINE_RULES) THEN best
    ELSE BestMatch(s, r + 1, BetterMatch(RuleMatch(r, s), best))

RECURSIVE InlineLoop(_, _)
RECURSIVE InlineStep(_, _, _)
\* Body of the while loop of highlightInline once best is found.
InlineStep(remaining, result, best) ==
    IF best.index >= 0
    THEN InlineLoop(
            Slice(remaining, best.index + best.length, Len(remaining)),
            result
            \o (IF best.index > 0
                THEN escapeHtml(Slice(remaining, 0, best.index))
                ELSE <<>>)
            \o wrap(best.cls, Slice(remaining, best.index,
                                    best.index + best.length)))
    ELSE result \o escapeHtml(remaining)

\* The while loop of highlightInline.
InlineLoop(remaining, result) ==
    IF Len(remaining) = 0 THEN result
    ELSE InlineStep(remaining, result,
                    BestMatch(remaining, 1, NoInlineMatch))

highlightInline(text) == InlineLoop(text, <<>>)

\* \s restricted to the blank and the tab.
IsSpace(c) == c \in {" ", "\t"}

\* The number of characters from index i on for which c \in cs holds.
RECURSIVE RunLength(_, _, _)
RunLength(s, i, cs) ==
    IF i < Len(s) /\ At(s, i) \in cs THEN 1 + RunLength(s, i + 1, cs) ELSE 0

AllSpaceFrom(s, i) == \A k \in i..(Len(s) - 1) : IsSpace(At(s, k))

\* Length of headingMatch[1] for /^(#{1,6}\s)(.*)/, 0 when the line is no
\* heading.
HeadingMarker(line) ==
    LET k == RunLength(line, 0, {"#"})
    IN  IF k >= 1 /\ k <= 6 /\ k < Len(line) /\ IsSpace(At(line, k))
        THEN k + 1 ELSE 0

\* /^(\*{3,}|-{3,}|_{3,})\s*$/.test(line)
IsHr(line) ==
    /\ Len(line) >= 3
    /\ At(line, 0) \in {"*", "-", "_"}
    /\ LET r == RunLength(line, 0, {At(line, 0)})
       IN  r >= 3 /\ AllSpaceFrom(line, r)

\* /^>\s?/.test(line)
IsBlockquote(line) == Len(line) >= 1 /\ At(line, 0) = ">"

\* Length of listMatch[1] for /^(\s*(?:[-*+]|\d+\.)\s)(.*)/, 0 when the line
\* is no list item.
ListMarker(line) ==
    LET p == RunLength(line, 0, {" ", "\t"})
        d == RunLength(line, p, {Digits[k] : k \in 1..Len(Digits)})
    IN  IF p + 1 < Len(line) /\ At(line, p) \in {"-", "*", "+"}
           /\ IsSpace(At(line, p + 1))
        THEN p + 2
        ELSE IF d >= 1 /\ p + d + 1 < Len(line) /\ At(line, p + d) = "."
                /\ IsSpace(At(line, p + d + 1))
        THEN p + d + 2
        ELSE 0

\* highlightMarkdownLine with the heading text put out as it is.
highlightMarkdownLine_rawHeading(line) ==
    IF HeadingMarker(line) > 0
    THEN wrap("md-heading-marker", Slice(line, 0, HeadingMarker(line)))
         \o <<SpanOpen("md-heading")>>
         \o Slice(line, HeadingMarker(line), Len(line))
         \o <<SpanClose>>
    ELSE IF IsHr(line) THEN wrap("md-hr", line)
    ELSE IF IsBlockquote(line) THEN wrap("md-blockquote", line)
    ELSE IF ListMarker(line) > 0
    THEN wrap("md-list-marker", Slice(line, 0, ListMarker(line)))
         \o highlightInline(Slice(line, ListMarker(line), Len(line)))
    ELSE highlightInline(line)

highlightMarkdownLine(line) ==
    IF HeadingMarker(line) > 0
    THEN wrap("md-heading-marker", Slice(line, 0, HeadingMarker(line)))
         \o <<SpanOpen("md-heading")>>
         \o highlightInline(Slice(line, HeadingMarker(line), Len(line)))
         \o <<SpanClose>>
    ELSE IF IsHr(line) THEN wrap("md-hr", line)
    ELSE IF IsBlockquote(line) THEN wrap("md-blockquote", line)
    ELSE IF ListMarker(line) > 0
    THEN wrap("md-list-marker", Slice(line, 0, ListMarker(line)))
         \o highlightInline(Slice(line, ListMarker(line), Len(line)))
    ELSE highlightInline(line)

\* htmlLines.join("\n"): the line break is one element of the markup.
JoinHtml(htmlLines) == Join(htmlLines)

highlightMarkdownBlock(code) ==
    LET lines == Split(code)
    IN  JoinHtml([k \in 1..Len(lines) |-> highlightMarkdownLine(lines[k])])

(* ------------------------- highlightMarkdown -------------------------- *)

\* Languages hljs.getLanguage knows, of those the documents name.
HljsLanguages == { <<"j", "s">> }

\* hljs.highlight(code, {language}).value: the escaped code in a span.
HljsHighlight(code, lang) ==
    <<SpanOpen("hljs")>> \o escapeHtml(code) \o <<SpanClose>>

highlightCode(code, lang) ==
    IF Len(lang) > 0 /\ lang \in HljsLanguages
    THEN HljsHighlight(code, lang)
    ELSE escapeHtml(code)

ToLower(c) ==
    CASE c = "M" -> "m" [] c = "D" -> "d" [] c = "A" -> "a" [] c = "R" -> "r"
      [] c = "K" -> "k" [] c = "O" -> "o" [] c = "W" -> "w" [] c = "N" -> "n"
      [] OTHER -> c

\* /^(md|markdown)$/i.test(codeLang)
IsMarkdownLang(codeLang) ==
    [k \in 1..Len(codeLang) |-> ToLower(codeLang[k])]
        \in { <<"m", "d">>, <<"m", "a", "r", "k", "d", "o", "w", "n">> }

\* The element flushCodeBlock pushes on htmlLines.
flushCodeBlock(codeLines, codeLang) ==
    IF IsMarkdownLang(codeLang)
    THEN highlightMarkdownBlock(Join(codeLines))
    ELSE highlightCode(Join(codeLines), codeLang)

\* line.trim()
Trim(line) ==
    LET S == {k \in 0..(Len(line) - 1) : ~IsSpace(At(line, k))}
    IN  IF S = {} THEN <<>>
        ELSE Slice(line, Least(S), (CHOOSE k \in S : \A j \in S : j <= k) + 1)

FrontmatterMark == <<"-", "-", "-">>

\* /^BBB/.test(line), B the grave accent
OpensFence(line) == RunLength(line, 0, {Backtick}) >= 3

\* /^BBB\s*$/.test(line), B the grave accent
ClosesFence(line) ==
    /\ Len(line) >= 3
    /\ \A k \in 0..2 : At(line, k) = Backtick
    /\ AllSpaceFrom(line, 3)

HighlightStart ==
    [htmlLines |-> <<>>, inFrontmatter |-> FALSE, frontmatterDone |-> FALSE,
     inCodeBlock |-> FALSE, codeLang |-> <<>>, codeLines |-> <<>>]

\* HighlightStep with the front-matter mark detected on any line.
HighlightStep_frontmatterAnywhere(st, i, line) ==
    IF Trim(line) = FrontmatterMark /\ ~st.inFrontmatter
    THEN [st EXCEPT !.inFrontmatter = TRUE,
                    !.htmlLines = Append(@, wrap("md-frontmatter", line))]
    ELSE IF st.inFrontmatter /\ ~st.frontmatterDone
    THEN [st EXCEPT !.htmlLines = Append(@, wrap("md-frontmatter", line)),
                    !.inFrontmatter = (Trim(line) # FrontmatterMark),
                    !.frontmatterDone = (Trim(line) = FrontmatterMark)]
    ELSE IF ~st.inCodeBlock /\ OpensFence(line)
    THEN [st EXCEPT !.inCodeBlock = TRUE,
                    !.codeLang = Trim(Slice(line, 3, Len(line))),
                    !.codeLines = <<>>,
                    !.htmlLines = Append(@, wrap("md-code-fence", line))]
    ELSE IF st.inCodeBlock /\ ClosesFence(line)
    THEN [st EXCEPT !.inCodeBlock = FALSE,
                    !.htmlLines = @ \o <<flushCodeBlock(st.codeLines, st.codeLang),
                                         wrap("md-code-fence", line)>>,
                    !.codeLines = <<>>,
                    !.codeLang = <<>>]
    ELSE IF st.inCodeBlock
    THEN [st EXCEPT !.codeLines = Append(@, line)]
    ELSE [st EXCEPT !.htmlLines = Append(@, highlightMarkdownLine(line))]

\* Body of the for loop of highlightMarkdown for lines[i].
HighlightStep(st, i, line) ==
    IF i = 0 /\ Trim(line) = FrontmatterMark
    THEN [st EXCEPT !.inFrontmatter = TRUE,
                    !.htmlLines = Append(@, wrap("md-frontmatter", line))]
    ELSE IF st.inFrontmatter /\ ~st.frontmatterDone
    THEN [st EXCEPT !.htmlLines = Append(@, wrap("md-frontmatter", line)),
                    !.inFrontmatter = (Trim(line) # FrontmatterMark),
                    !.frontmatterDone = (Trim(line) = FrontmatterMark)]
    ELSE IF ~st.inCodeBlock /\ OpensFence(line)
    THEN [st EXCEPT !.inCodeBlock = TRUE,
                    !.codeLang = Trim(Slice(line, 3, Len(line))),
                    !.codeLines = <<>>,
                    !.htmlLines = Append(@, wrap("md-code-fence", line))]
    ELSE IF st.inCodeBlock /\ ClosesFence(line)
    THEN [st EXCEPT !.inCodeBlock = FALSE,
                    !.htmlLines = @ \o <<flushCodeBlock(st.codeLines, st.codeLang),
                                         wrap("md-code-fence", line)>>,
                    !.codeLines = <<>>,
                    !.codeLang = <<>>]
    ELSE IF st.inCodeBlock
    THEN [st EXCEPT !.codeLines = Append(@, line)]
    ELSE [st EXCEPT !.htmlLines = Append(@, highlightMarkdownLine(line))]

RECURSIVE HighlightLoop(_, _, _)
HighlightLoop(lines, i, st) ==
    IF i >= Len(lines) THEN st
    ELSE HighlightLoop(lines, i + 1, HighlightStep(st, i, At(lines, i)))

\* The list htmlLines of highlightMarkdown without the flush of a code block
\* left open.
highlightedLines_noFinalFlush(source) ==
    HighlightLoop(Split(source), 0, HighlightStart).htmlLines

\* Handle unclosed code block (still typing): htmlLines after the loop.
FinalFlush(st) ==
    IF st.inCodeBlock /\ Len(st.codeLines) > 0
    THEN Append(st.htmlLines, flushCodeBlock(st.codeLines, st.codeLang))
    ELSE st.htmlLines

\* The list htmlLines of highlightMarkdown(source) before it is joined.
highlightedLines(source) ==
    FinalFlush(HighlightLoop(Split(source), 0, HighlightStart))

highlightMarkdown(source) == JoinHtml(highlightedLines(source))

(* ------------------ the highlighter as a state machine ---------------- *)

\* Characters of the lines highlighted one by one: the three that
\* escapeHtml replaces, two inline markers, a letter and a blank.
HlChars == {"<", ">", "&", "*", Backtick, "a", " "}

\* Lines with the block markers and the longer inline rules, each holding a
\* character that escapeHtml replaces.
HlExampleLines ==
    { <<"#", " ", "<", "b", ">">>,
      <<"#", "#", " ", "*", "&", "*">>,
      <<"-", " ", "<", "&">>,
      <<"1", ".", " ", ">">>,
      <<">", " ", "<", "a">>,
      <<"-", "-", "-">>,
      <<"[", "<", "]", "(", "&", ")">>,
      <<"!", "[", "a", "]", "(", ">", ")">>,
      <<"~", "~", "<", "~", "~">>,
      <<"_", "_", "&", "_", "_", "<">>,
      <<"<", "s", "c", "r", "i", "p", "t", ">">> }

HlLineTexts == {<<>>} \cup SeqsUpTo(HlChars, MaxHlLineLen) \cup HlExampleLines

\* Lines of the documents highlighted as a whole: fences of three and four
\* grave accents, a fence with a language, front-matter marks with and
\* without a blank before them, a heading and a plain line.
HlDocLines ==
    { <<Backtick, Backtick, Backtick>>,
      <<Backtick, Backtick, Backtick, Backtick>>,
      <<Backtick, Backtick, Backtick, "j", "s">>,
      FrontmatterMark,
      <<" ">> \o FrontmatterMark,
      <<"#", " ", "a">>,
      <<"<">> }

HlDocs == Documents(HlDocLines, MaxHlDocLines)

NoLineBreak(text) == \A k \in 1..Len(text) : text[k] # NL

InitHighlight ==
    /\ savedContent = <<>>
    /\ currentContent \in HlLineTexts \cup HlDocs
    /\ diff = None
    /\ ops = <<>>
    /\ hunks = <<>>
    /\ query = None
    /\ hunkText = None
    /\ reparsed = None
    /\ lcsSetsOf = None
    /\ GitIdle
    /\ AppIdle
    /\ pc = "typed"

\* The overlay of the editor: highlightMarkdown(textarea.value).
HighlightMarkdown ==
    /\ pc = "typed"
    /\ \E htmlLines \in {highlightedLines(currentContent)} :
          highlighted' = Some([fn |-> "highlightMarkdown",
                               htmlLines |-> htmlLines,
                               html |-> JoinHtml(htmlLines)])
    /\ pc' = "highlighted"
    /\ UNCHANGED <<unsavedVars, gitVars, currentPath, unsavedLines,
                   unsavedDeleted, unsavedTimer, timeouts, saving, fetching>>

\* highlightMarkdownLine(line) on a text of one line.
HighlightMarkdownLine ==
    /\ pc = "typed"
    /\ NoLineBreak(currentContent)
    /\ \E html \in {highlightMarkdownLine(currentContent)} :
          highlighted' = Some([fn |-> "highlightMarkdownLine",
                               htmlLines |-> <<html>>, html |-> html])
    /\ pc' = "highlighted"
    /\ UNCHANGED <<unsavedVars, gitVars, currentPath, unsavedLines,
                   unsavedDeleted, unsavedTimer, timeouts, saving, fetching>>

\* highlightInline(text) on a text of one line.
HighlightInline ==
    /\ pc = "typed"
    /\ NoLineBreak(currentContent)
    /\ \E html \in {highlightInline(currentContent)} :
          highlighted' = Some([fn |-> "highlightInline",
                               htmlLines |-> <<html>>, html |-> html])
    /\ pc' = "highlighted"
    /\ UNCHANGED <<unsavedVars, gitVars, currentPath, unsavedLines,
                   unsavedDeleted, unsavedTimer, timeouts, saving, fetching>>

NextHighlight ==
    \/ HighlightMarkdown
    \/ HighlightMarkdownLine
    \/ HighlightInline

SpecHighlight == InitHighlight /\ [][NextHighlight]_vars

(* ------------------- the App component as a state machine ------------- *)

EmptyMap == <<>>

\* map.set(key, value)
MapSet(map, key, value) ==
    [x \in DOMAIN map \cup {key} |-> IF x = key THEN value ELSE map[x]]

RECURSIVE SetAll(_, _, _)
\* for (const ln of S) map.set(ln, value)
SetAll(map, S, value) ==
    IF S = {} THEN map
    ELSE LET ln == CHOOSE x \in S : TRUE
         IN  SetAll(MapSet(map, ln, value), S \ {ln}, value)

\* lineStatuses with the two loops in the other order.
lineStatuses_uncommittedLast ==
    SetAll(SetAll(EmptyMap, unsavedLines, "unsaved"),
           uncommittedLines, "uncommitted")

\* The memo lineStatuses of the current render.
lineStatuses ==
    SetAll(SetAll(EmptyMap, uncommittedLines, "uncommitted"),
           unsavedLines, "unsaved")

\* The memo deletedLines of the current render.
deletedLines ==
    SetAll(SetAll(EmptyMap, uncommittedDeleted, "uncommitted"),
           unsavedDeleted, "unsaved")

\* Note bodies: the empty body and bodies of up to MaxNoteLines equal lines,
\* so that edits modify, append and remove lines.
NoteBodies == {<<>>} \cup Documents({<<"a">>}, MaxNoteLines)

AppBodies == {<<"add", "add">>, <<"add", "del", "ctx", "add", "add">>}

\* The answers of gitWorkingDiff: no change, or one hunk at the top of the
\* file.
AppGitDiffs == {<<>>} \cup {<<GitHunk(1, 1, b)>> : b \in AppBodies}

InitApp ==
    /\ UnsavedIdle
    /\ GitIdle
    /\ AppIdle
    /\ pc = "app"

\* openNote(path) once getNote has answered with frontmatter raw and a body.
OpenNote ==
    /\ pc = "app"
    /\ \E raw \in FrontmatterTexts, body \in NoteBodies :
          /\ frontmatterRaw' = raw
          /\ currentContent' = body
          /\ savedContent' = body
          /\ fetching' = fetching \cup {raw}
    /\ unsavedLines' = {}
    /\ unsavedDeleted' = {}
    /\ currentPath' = Some("note")
    /\ UNCHANGED <<diff, ops, hunks, query, hunkText, reparsed, lcsSetsOf, gitHunks,
                   gitFramed, uncommittedDiff, gitParsed, uncommittedLines,
                   uncommittedDeleted, click, diffPopup, unsavedTimer, timeouts, saving,
                   highlighted, pc>>

\* clearTimeout(id) with nothing cancelled.
clearTimeout_noop(pending, ref) == pending

\* if (unsavedTimerRef.current) clearTimeout(unsavedTimerRef.current): the
\* pending callbacks left; the id of a callback that has run cancels nothing.
clearTimeout(pending, ref) ==
    IF IsNone(ref) THEN pending
    ELSE {t \in pending : t.id # ValueOf(ref)}

\* The id setTimeout returns: one that no pending callback has.
TimeoutId(pending) ==
    Least({n \in 1..(Cardinality(pending) + 1) :
              \A t \in pending : t.id # n})

\* setTimeout(() => ..., 300): the callback holds the savedContent of this
\* render and markdown.
setTimeout(pending, saved, markdown) ==
    pending \cup {[id |-> TimeoutId(pending), savedContent |-> saved,
                   markdown |-> markdown]}

\* handleSourceChange(markdown): the timer of unsavedTimerRef is cancelled
\* and a new one is set, whose id unsavedTimerRef keeps.
HandleSourceChange ==
    /\ pc = "app"
    /\ ~IsNone(currentPath)
    /\ \E markdown \in NoteBodies \ {currentContent} :
          /\ currentContent' = markdown
          /\ \E left \in {clearTimeout(timeouts, unsavedTimer)} :
                /\ timeouts' = setTimeout(left, savedContent, markdown)
                /\ unsavedTimer' = Some(TimeoutId(left))
    /\ UNCHANGED <<savedContent, diff, ops, hunks, query, hunkText, reparsed, lcsSetsOf,
                   gitVars, currentPath, unsavedLines, unsavedDeleted, saving,
                   fetching, highlighted, pc>>

\* The callback of a pending timer runs, 300 ms after it was set.
UnsavedTimerFires ==
    /\ pc = "app"
    /\ \E t \in timeouts :
          /\ \E d \in {computeChangedLines(t.savedContent, t.markdown)} :
                /\ unsavedLines' = d.changed
                /\ unsavedDeleted' = d.deletedAfter
          /\ timeouts' = timeouts \ {t}
    /\ UNCHANGED <<unsavedVars, gitVars, currentPath, unsavedTimer, saving,
                   fetching, highlighted, pc>>

\* handleSave up to its await of saveNote(currentPath, frontmatterRaw +
\* contentRef.current); one request is in flight at a time.
HandleSave ==
    /\ pc = "app"
    /\ ~IsNone(currentPath)
    /\ IsNone(saving)
    /\ saving' = Some([content |-> frontmatterRaw \o currentContent,
                       frontmatterRaw |-> frontmatterRaw])
    /\ UNCHANGED <<unsavedVars, gitVars, currentPath, unsavedLines,
                   unsavedDeleted, unsavedTimer, timeouts, fetching, highlighted, pc>>

\* handleSave after saveNote has resolved, up to its call of
\* fetchUncommittedLines(currentPath, frontmatterRaw).
SaveNoteResolves ==
    /\ pc = "app"
    /\ ~IsNone(saving)
    /\ savedContent' = currentContent
    /\ unsavedLines' = {}
    /\ unsavedDeleted' = {}
    /\ fetching' = fetching \cup {ValueOf(saving).frontmatterRaw}
    /\ saving' = None
    /\ UNCHANGED <<currentContent, diff, ops, hunks, query, hunkText, reparsed, lcsSetsOf,
                   gitVars, currentPath, unsavedTimer, timeouts, highlighted, pc>>

\* saveNote rejects: handleSave ends at its await.
SaveNoteRejects ==
    /\ pc = "app"
    /\ ~IsNone(saving)
    /\ saving' = None
    /\ UNCHANGED <<unsavedVars, gitVars, currentPath, unsavedLines,
                   unsavedDeleted, unsavedTimer, timeouts, fetching, highlighted, pc>>

\* gitWorkingDiff answers one fetchUncommittedLines(path, frontmatter) call.
GitWorkingDiffAnswers ==
    /\ pc = "app"
    /\ \E frontmatter \in fetching, hs \in AppGitDiffs :
          \E r \in {fetchUncommittedLines(Len(hs) > 0, DiffText(hs, TRUE),
                                          frontmatter)} :
             /\ gitHunks' = hs
             /\ gitFramed' = TRUE
             /\ gitParsed' = r.parsed
             /\ uncommittedLines' = r.lines
             /\ uncommittedDeleted' = r.deleted
             /\ uncommittedDiff' = r.diff
             /\ fetching' = fetching \ {frontmatter}
    /\ UNCHANGED <<unsavedVars, frontmatterRaw, click, diffPopup, currentPath,
                   unsavedLines, unsavedDeleted, unsavedTimer, timeouts, saving, highlighted, pc>>

NextApp ==
    \/ OpenNote
    \/ HandleSourceChange
    \/ UnsavedTimerFires
    \/ HandleSave
    \/ SaveNoteResolves
    \/ SaveNoteRejects
    \/ GitWorkingDiffAnswers

SpecApp == InitApp /\ [][NextApp]_vars

(* ------------------------- claims: unsaved layer ---------------------- *)

SavedLines == Split(savedContent)

CurrentLines == Split(currentContent)

Built == pc \in {"built", "parsed"}

Diffed == pc # "edited"

Range(f) == {f[k] : k \in DOMAIN f}

Distinct(f) == \A x, y \in DOMAIN f : x # y => f[x] # f[y]

IsADeleteOrEqual(op) == op.type # "insert"

IsBInsertOrEqual(op) == op.type # "delete"

\* a[aIdx] read from the equal and delete ops, in list order.
ProjectA(script, a) ==
    LET sel == SelectSeq(script, IsADeleteOrEqual)
    IN  [k \in 1..Len(sel) |-> At(a, sel[k].aIdx)]

\* b[bIdx] read from the equal and insert ops, in list order.
ProjectB(script, b) ==
    LET sel == SelectSeq(script, IsBInsertOrEqual)
    IN  [k \in 1..Len(sel) |-> At(b, sel[k].bIdx)]

HasType(script, t) == \E k \in 1..Len(script) : script[k].type = t

\* C1: the edit script of computeEditScript(a, b) reconstructs a through its
\* equal and delete ops and b through its equal and insert ops.
C1_Reconstructs ==
    Built => /\ ProjectA(ops, SavedLines) = SavedLines
             /\ ProjectB(ops, CurrentLines) = CurrentLines

C1_Witness ==
    /\ Built
    /\ HasType(ops, "equal") /\ HasType(ops, "insert") /\ HasType(ops, "delete")
    /\ ops[1].type # "equal"

\* current is baseline with the content of line k replaced by content that
\* occurs nowhere in baseline, the lines of baseline pairwise distinct.
OneLineReplaced(a, b, k) ==
    /\ Len(a) = Len(b)
    /\ Distinct(a)
    /\ k \in 1..Len(a)
    /\ b[k] \notin Range(a)
    /\ \A i \in 1..Len(a) : i # k => a[i] = b[i]

\* C2: a single modified line k gives changed = {k} and no deletion marker.
C2_ModifiedLineNoMarker ==
    Diffed =>
        \A k \in 1..Len(SavedLines) :
            OneLineReplaced(SavedLines, CurrentLines, k)
            => ValueOf(diff) = [changed |-> {k}, deletedAfter |-> {}]

\* current is baseline without the run of r >= 1 lines that follows its first
\* k lines; at least one line is left.
RunRemoved(a, b, k, r) ==
    /\ Distinct(a)
    /\ r >= 1 /\ k >= 0 /\ k + r <= Len(a)
    /\ Len(b) >= 1
    /\ b = SubSeq(a, 1, k) \o SubSeq(a, k + r + 1, Len(a))

\* C3: one removed run after k lines gives changed = {} and the single
\* deletion marker k, k being the line count of current for a run at the end.
C3_RemovedRun ==
    Diffed =>
        \A k \in 0..Len(SavedLines), r \in 1..Len(SavedLines) :
            RunRemoved(SavedLines, CurrentLines, k, r)
            => ValueOf(diff) = [changed |-> {}, deletedAfter |-> {k}]

C3_Witness ==
    /\ Diffed
    /\ RunRemoved(SavedLines, CurrentLines, 1, 1)
    /\ Len(CurrentLines) = 2
    /\ ValueOf(diff).deletedAfter = {1}

C3_WitnessAtEnd ==
    /\ Diffed
    /\ RunRemoved(SavedLines, CurrentLines, 2, 1)
    /\ ValueOf(diff).deletedAfter = {Len(CurrentLines)}

\* C4: computeChangedLines(x, x) has no changed line and no deletion marker.
C4_Identity ==
    (Diffed /\ savedContent = currentContent)
    => ValueOf(diff) = [changed |-> {}, deletedAfter |-> {}]

C4_Witness ==
    /\ Diffed
    /\ savedContent = currentContent
    /\ Len(CurrentLines) >= 2
    /\ ValueOf(diff).changed = {}

RECURSIVE IsSubsequence(_, _)
\* x can be obtained from y by removing elements.
IsSubsequence(x, y) ==
    IF Len(x) = 0 THEN TRUE
    ELSE IF Len(y) = 0 THEN FALSE
    ELSE IF x[1] = y[1] THEN IsSubsequence(Tail(x), Tail(y))
    ELSE IsSubsequence(x, Tail(y))

RECURSIVE SortedSeq(_)
\* The elements of a finite set of integers in ascending order.
SortedSeq(S) ==
    IF S = {} THEN <<>>
    ELSE LET lo == CHOOSE x \in S : \A y \in S : x <= y
         IN  <<lo>> \o SortedSeq(S \ {lo})

\* The lines of a at the 0-based positions S, in order.
Pick(a, S) == LET idx == SortedSeq(S) IN [k \in 1..Len(idx) |-> At(a, idx[k])]

\* Length of a longest common subsequence, by enumeration.
LcsLength(a, b) ==
    LET common == {S \in SUBSET (0..(Len(a) - 1)) : IsSubsequence(Pick(a, S), b)}
    IN  CHOOSE k \in 0..Len(a) :
            /\ \E S \in common : Cardinality(S) = k
            /\ \A S \in common : Cardinality(S) <= k

\* C5: in exact mode lcsA and lcsB have the same size, pair lines of equal
\* content in ascending order, and that size is the length of a longest
\* common subsequence, so m minus it lines are changed.
C5_ExactLcs ==
    (pc = "diffed" /\ Len(SavedLines) * Len(CurrentLines) <= LcsThreshold) =>
        LET a == SavedLines
            b == CurrentLines
            lcs == lcsSets(a, b)
            longest == LcsLength(a, b)
        IN  /\ lcs.lcsA \subseteq 0..(Len(a) - 1)
            /\ lcs.lcsB \subseteq 0..(Len(b) - 1)
            /\ Cardinality(lcs.lcsA) = Cardinality(lcs.lcsB)
            /\ Pick(a, lcs.lcsA) = Pick(b, lcs.lcsB)
            /\ Cardinality(lcs.lcsA) = longest
            /\ Cardinality(ValueOf(diff).changed) = Len(b) - longest

\* Neither the first nor the last line matches and a tie is met on the way.
C5_Witness ==
    /\ pc = "diffed"
    /\ Len(SavedLines) >= 3 /\ Len(CurrentLines) >= 3
    /\ LcsLength(SavedLines, CurrentLines) = 2
    /\ SavedLines[1] # CurrentLines[1]
    /\ SavedLines[Len(SavedLines)] # CurrentLines[Len(CurrentLines)]
    /\ Cardinality(ValueOf(diff).changed) = Len(CurrentLines) - 2

\* The hunk the last buildUnsavedDiff call rendered.
QueriedHunk ==
    hunks[matchedHunk(hunks, ValueOf(query).bodyLine, ValueOf(query).isDeletion)]

\* C6: the hunk text of buildUnsavedDiff, read back by parseDiffLineNumbers,
\* gives the changed lines of computeChangedLines within the hunk's range.
C6_RoundTrip ==
    pc = "parsed" =>
        ValueOf(reparsed).changed =
            {ln \in ValueOf(diff).changed :
                ln - 1 >= QueriedHunk.bStart /\ ln - 1 <= QueriedHunk.bEnd}

\* C7: consecutive hunks of buildUnsavedDiff are in ascending order and share
\* neither a line of current nor an edit operation.
C7_NoOverlap ==
    Built =>
        \A k \in 1..(Len(hunks) - 1) :
            /\ hunks[k].bEnd < hunks[k + 1].bStart
            /\ Range(hunks[k].ops) \cap Range(hunks[k + 1].ops) = {}

Fetched == pc \in {"fetched", "clicked"}

KindsOf(body) == [k \in 1..Len(body) |-> body[k].kind]

\* New-file numbers of the '+' lines of hunk h: newStart plus the number of
\* '+' and context lines before the line in the hunk.
AddedLines(h) ==
    {h.newStart + CountKinds(SubSeq(KindsOf(h.body), 1, k - 1), {"ctx", "add"}) :
        k \in {j \in 1..Len(h.body) : h.body[j].kind = "add"}}

ExpectedChanged(hs) == UNION {AddedLines(hs[k]) : k \in 1..Len(hs)}

\* C8: on a diff whose hunks are headers followed by ' ', '+' and '-' lines,
\* parseDiffLineNumbers reports exactly the '+' lines, each at newStart plus
\* the '+' and context lines before it in its hunk; '-' lines do not advance
\* the counter and each header restarts it.
C8_PlusLineNumbers ==
    (Fetched /\ Len(gitHunks) > 0)
        => /\ ~IsNone(gitParsed)
           /\ ValueOf(gitParsed).changed = ExpectedChanged(gitHunks)

\* Two hunks behind file headers, the first with a removed line before an
\* added one, the second with an added line at a two-digit number.
C8_Witness ==
    /\ pc = "fetched"
    /\ gitFramed
    /\ Len(gitHunks) = 2
    /\ \E j, k \in 1..Len(gitHunks[1].body) :
          j < k /\ gitHunks[1].body[j].kind = "del"
                /\ gitHunks[1].body[k].kind = "add"
    /\ \E ln \in AddedLines(gitHunks[2]) : ln >= 10
    /\ ~IsNone(gitParsed)
    /\ ValueOf(gitParsed).changed = ExpectedChanged(gitHunks)

FileLine == ValueOf(click) + frontmatterLineCount(frontmatterRaw)

\* Hunks of the diff whose range [newStart - 1, newStart + max(newCount, 1)]
\* contains the file line.
Containing(hs, fileLine) ==
    {k \in 1..Len(hs) :
        /\ fileLine >= hs[k].newStart - 1
        /\ fileLine <= hs[k].newStart + Max(hs[k].newCount, 1)}

PopupHeader == Split(ValueOf(diffPopup))[1]

\* C9: a click on an uncommitted line shows the first hunk of the diff whose
\* range [newStart - 1, newStart + max(newCount, 1)] contains the clicked
\* body line plus the front-matter line count, and nothing when no hunk's
\* range contains it.
C9_FirstHunkInRange ==
    pc = "clicked"
        => LET S == Containing(gitHunks, FileLine)
           IN  IF S = {} THEN IsNone(diffPopup)
               ELSE /\ ~IsNone(diffPopup)
                    /\ PopupHeader = HeaderText(gitHunks[Least(S)])

\* A click below front matter that lands on the upper tolerance line of the
\* second hunk, outside the range of the first.
C9_Witness ==
    /\ pc = "clicked"
    /\ Len(frontmatterRaw) > 0
    /\ Len(gitHunks) = 2
    /\ Containing(gitHunks, FileLine) = {2}
    /\ FileLine = gitHunks[2].newStart + Max(gitHunks[2].newCount, 1)
    /\ ~IsNone(diffPopup)
    /\ PopupHeader = HeaderText(gitHunks[2])

\* A click that no hunk's range contains leaves the popup closed.
C9_WitnessNull ==
    /\ pc = "clicked"
    /\ Len(gitHunks) = 2
    /\ Containing(gitHunks, FileLine) = {}
    /\ IsNone(diffPopup)

\* The map holds 'unsaved' on the unsaved set, 'uncommitted' on the rest of
\* the uncommitted set, and no other key.
UnsavedFirst(map, unsaved, uncommitted) ==
    /\ \A ln \in unsaved : ln \in DOMAIN map /\ map[ln] = "unsaved"
    /\ \A ln \in uncommitted \ unsaved :
          ln \in DOMAIN map /\ map[ln] = "uncommitted"
    /\ DOMAIN map \subseteq unsaved \cup uncommitted

\* C10: in lineStatuses a line is 'unsaved' iff it is in unsavedLines,
\* 'uncommitted' iff it is in uncommittedLines and not in unsavedLines, and
\* absent otherwise; deletedLines merges the two deletion sets the same way.
C10_UnsavedPrecedence ==
    pc = "app"
        => /\ UnsavedFirst(lineStatuses, unsavedLines, uncommittedLines)
           /\ UnsavedFirst(deletedLines, unsavedDeleted, uncommittedDeleted)

\* Both layers mark a line and a deletion gap, and the uncommitted layer
\* marks a line the unsaved layer does not.
C10_Witness ==
    /\ pc = "app"
    /\ unsavedLines \cap uncommittedLines # {}
    /\ uncommittedLines \ unsavedLines # {}
    /\ unsavedDeleted \cap uncommittedDeleted # {}
    /\ \E ln \in unsavedLines \cap uncommittedLines :
          lineStatuses[ln] = "unsaved"
    /\ \E ln \in unsavedDeleted \cap uncommittedDeleted :
          deletedLines[ln] = "unsaved"

(* ---------------------- claims: arbitrary diff text ------------------- *)

DiffLines == Split(uncommittedDiff)

\* No line of the fetched text matches the hunk-header pattern.
NoHeaderIn(lines) == \A k \in 1..Len(lines) : ~hunkMatch(lines[k]).ok

NoHeaderLine == NoHeaderIn(DiffLines)

\* C11: for a diff text without any line matching the hunk-header pattern,
\* lines that fall short of the pattern included, parseDiffLineNumbers
\* returns two empty sets and extractHunkForLine returns null for every line.
C11_NoHeaderNoChanges ==
    (Fetched /\ ~IsNone(gitParsed) /\ NoHeaderLine)
        => /\ ValueOf(gitParsed).changed = {}
           /\ ValueOf(gitParsed).deletedAfter = {}
           /\ pc = "clicked" => IsNone(diffPopup)

\* A text of a malformed header followed by an added and a removed line,
\* parsed and clicked.
C11_Witness ==
    /\ pc = "clicked"
    /\ NoHeaderLine
    /\ Len(DiffLines) >= 3
    /\ StartsWith(DiffLines[1], <<"@", "@">>)
    /\ \E k \in 2..Len(DiffLines) : StartsWith(DiffLines[k], <<"+">>)
    /\ \E k \in 2..Len(DiffLines) : StartsWith(DiffLines[k], <<"-">>)
    /\ ValueOf(gitParsed).changed = {}
    /\ IsNone(diffPopup)

(* ---------------------------- claims: highlighter --------------------- *)

Highlighted == pc = "highlighted"

Html == ValueOf(highlighted).html

\* The tags the highlighter puts out.
HlTags ==
    {SpanClose} \cup
    {SpanOpen(cls) : cls \in {INLINE_RULES[r] : r \in 1..Len(INLINE_RULES)}
                         \cup {"md-heading-marker", "md-heading", "md-hr",
                               "md-blockquote", "md-list-marker",
                               "md-frontmatter", "md-code-fence", "hljs"}}

\* The markup without its tags.
TextOf(html) == SelectSeq(html, LAMBDA x : x \notin HlTags)

RECURSIVE Unescape(_)
\* The text whose escapeHtml is the given text.
Unescape(text) ==
    IF Len(text) = 0 THEN <<>>
    ELSE IF HasLit(text, 1, <<"&", "a", "m", "p", ";">>)
    THEN <<"&">> \o Unescape(SubSeq(text, 6, Len(text)))
    ELSE IF HasLit(text, 1, <<"&", "l", "t", ";">>)
    THEN <<"<">> \o Unescape(SubSeq(text, 5, Len(text)))
    ELSE IF HasLit(text, 1, <<"&", "g", "t", ";">>)
    THEN <<">">> \o Unescape(SubSeq(text, 5, Len(text)))
    ELSE <<text[1]>> \o Unescape(Tail(text))

\* Every '&' of the text opens one of the three entities.
OnlyEntities(text) ==
    \A k \in 1..Len(text) :
        text[k] = "&" => \/ HasLit(text, k, <<"&", "a", "m", "p", ";">>)
                         \/ HasLit(text, k, <<"&", "l", "t", ";">>)
                         \/ HasLit(text, k, <<"&", "g", "t", ";">>)

\* C12: the markup of highlightMarkdownLine and highlightInline holds '<'
\* and '>' only in the span tags of the highlighter, and the '&', '<', '>'
\* of the line stand in it as &amp;, &lt;, &gt;: its text, tags taken out,
\* is the line with the three characters replaced.
C12_Escaped ==
    (Highlighted /\ ValueOf(highlighted).fn \in {"highlightMarkdownLine",
                                                 "highlightInline"})
        => /\ \A k \in 1..Len(TextOf(Html)) : TextOf(Html)[k] \notin {"<", ">"}
           /\ OnlyEntities(TextOf(Html))
           /\ Unescape(TextOf(Html)) = currentContent

\* The line <script> highlighted: no '<' is left outside the tags.
C12_Witness ==
    /\ Highlighted
    /\ ValueOf(highlighted).fn = "highlightMarkdownLine"
    /\ currentContent = <<"<", "s", "c", "r", "i", "p", "t", ">">>
    /\ Html = <<"&", "l", "t", ";", "s", "c", "r", "i", "p", "t",
                "&", "g", "t", ";">>

\* A heading whose text holds '<' and '>', highlighted.
C12_WitnessHeading ==
    /\ Highlighted
    /\ ValueOf(highlighted).fn = "highlightMarkdownLine"
    /\ currentContent = <<"#", " ", "<", "b", ">">>
    /\ Len(Html) > Len(TextOf(Html))
    /\ Unescape(TextOf(Html)) = currentContent

SourceLines == Split(currentContent)

\* The source has no front matter, a line f opens a code fence, lines follow
\* it and none of them closes the fence.
FenceLeftOpenAt(f) ==
    /\ Trim(At(SourceLines, 0)) # FrontmatterMark
    /\ f < Len(SourceLines) - 1
    /\ OpensFence(At(SourceLines, f))
    /\ \A k \in 0..(f - 1) : ~OpensFence(At(SourceLines, k))
    /\ \A k \in (f + 1)..(Len(SourceLines) - 1) : ~ClosesFence(At(SourceLines, k))

\* C13: highlightMarkdown returns for every document (its loop runs once
\* over the lines), and when a code fence is opened and never closed the
\* lines after the opening line are put out by flushCodeBlock, as one block
\* after the markup of the fence line.
C13_OpenFenceFlushed ==
    (Highlighted /\ ValueOf(highlighted).fn = "highlightMarkdown")
        => \A f \in 0..(Len(SourceLines) - 1) :
              FenceLeftOpenAt(f)
                 => ValueOf(highlighted).htmlLines =
                       [k \in 1..f |-> highlightMarkdownLine(SourceLines[k])]
                       \o << wrap("md-code-fence", At(SourceLines, f)),
                             flushCodeBlock(
                                Slice(SourceLines, f + 1, Len(SourceLines)),
                                Trim(Slice(At(SourceLines, f), 3,
                                           Len(At(SourceLines, f))))) >>

\* A heading, a js fence left open and two lines after it: the two lines
\* come out of the tokenizer of hljs.
C13_Witness ==
    /\ Highlighted
    /\ ValueOf(highlighted).fn = "highlightMarkdown"
    /\ Len(SourceLines) = 4
    /\ FenceLeftOpenAt(1)
    /\ At(SourceLines, 1) = <<Backtick, Backtick, Backtick, "j", "s">>
    /\ Len(ValueOf(highlighted).htmlLines) = 3
    /\ ValueOf(highlighted).htmlLines[3] =
          HljsHighlight(Join(Slice(SourceLines, 2, 4)), <<"j", "s">>)

(* ------------------------------ C14 ----------------------------------- *)
\* The last lines of baseline and current differ and the table values at
\* (n-1, m) and (n, m-1) are equal: the first step of both backtracks is a
\* tie.  The table values are LCS lengths of the prefixes, taken here by
\* enumeration.
TopTie ==
    LET a == SavedLines
        b == CurrentLines
    IN  /\ Len(a) > 0 /\ Len(b) > 0
        /\ a[Len(a)] # b[Len(b)]
        /\ LcsLength(SubSeq(a, 1, Len(a) - 1), b)
             = LcsLength(a, SubSeq(b, 1, Len(b) - 1))

\* a = [A, B] and b = [B, A] with A # B.
SwappedPair ==
    /\ Len(SavedLines) = 2 /\ Len(CurrentLines) = 2
    /\ SavedLines[1] # SavedLines[2]
    /\ CurrentLines = <<SavedLines[2], SavedLines[1]>>

\* C14 (amended): on a tie both backtracks decrement j (walk b).  The last
\* current line is then left unmatched: it is a changed line of
\* computeChangedLines and the last op of computeEditScript is its insert.
\* For a = [A, B], b = [B, A] the matched current line is line 1 and the
\* changed line is line 2.  Every tie met further down a backtrack is the
\* first step for a pair of prefixes, and the inputs are closed under
\* prefixes.
C14_TieWalksB ==
    /\ (Built /\ TopTie) =>
          /\ Len(CurrentLines) \in ValueOf(diff).changed
          /\ ops[Len(ops)] = OpInsert(Len(CurrentLines) - 1)
    /\ (Built /\ SwappedPair) =>
          /\ ValueOf(diff).changed = {2}
          /\ ops = <<OpDelete(0), OpEqual(1, 0), OpInsert(1)>>

\* C14 as stated: on a tie the backtracks decrement i (walk a), so the last
\* op is the delete of the last baseline line, and for a = [A, B],
\* b = [B, A] current line 2 is matched and line 1 is the changed one.
C14_TieWalksA ==
    /\ (Built /\ TopTie) => ops[Len(ops)] = OpDelete(Len(SavedLines) - 1)
    /\ (Built /\ SwappedPair) =>
          /\ ValueOf(diff).changed = {1}
          /\ ops = <<OpInsert(0), OpEqual(0, 1), OpDelete(1)>>

\* The backtracks have run on a = [A, B], b = [B, A].
C14_Witness ==
    /\ Built /\ SwappedPair /\ TopTie
    /\ ~IsNone(diff) /\ Len(ops) = 3

(* --------------------------- C15, C16 --------------------------------- *)
IsHeaderLine(line) == hunkMatch(line).ok

\* A header starts with "@@", so these two are no headers.
IsPlusLine(line) == StartsWith(line, <<"+">>)

IsMinusLine(line) == StartsWith(line, <<"-">>)

IsContextLine(line) ==
    ~IsPlusLine(line) /\ ~IsMinusLine(line) /\ ~IsHeaderLine(line)

\* The new-file start of the header that opens the fetched text.
FirstNewStart(lines) == parseInt(hunkMatch(lines[1]).g1)

\* r removed lines follow the first line of the text.
MinusRun(lines, r) ==
    /\ r >= 1 /\ Len(lines) >= r + 1
    /\ \A k \in 2..(r + 1) : IsMinusLine(lines[k])

\* The removed lines are the last of their hunk: the input ends or the next
\* hunk header follows.
RunEndsHunk(lines, r) ==
    \/ Len(lines) = r + 1
    \/ Len(lines) > r + 1 /\ IsHeaderLine(lines[r + 2])

\* The marker at the counter value the opening header set, minus one, is
\* recorded for a run of removed lines that ends the first hunk.
MarkerAtHunkEnd(lines, deletedAfter) ==
    IsHeaderLine(lines[1]) =>
        \A r \in 1..Len(lines) :
            (MinusRun(lines, r) /\ RunEndsHunk(lines, r))
                => (FirstNewStart(lines) - 1) \in deletedAfter

\* C15: a hunk that ends with removed lines gets its deletion marker at
\* counter - 1, whether a new hunk header or the end of the input follows.
\* The counter still has the value the hunk's header gave it.
C15_MarkerAtHunkEnd ==
    (Fetched /\ ~IsNone(gitParsed))
        => MarkerAtHunkEnd(DiffLines, ValueOf(gitParsed).deletedAfter)

\* After the first line come r removed lines, p added lines and a context
\* line, and no line after them is a removed line.
MinusPlusContext(lines, r, p) ==
    /\ MinusRun(lines, r)
    /\ p >= 1 /\ Len(lines) >= r + p + 2
    /\ \A k \in (r + 2)..(r + p + 1) : IsPlusLine(lines[k])
    /\ IsContextLine(lines[r + p + 2])
    /\ \A k \in (r + p + 3)..Len(lines) : ~IsMinusLine(lines[k])

\* No marker is recorded and the p added lines are marked changed.
PlusClearsPending(lines, parsed) ==
    IsHeaderLine(lines[1]) =>
        \A r, p \in 1..Len(lines) :
            MinusPlusContext(lines, r, p)
                => /\ parsed.deletedAfter = {}
                   /\ FirstNewStart(lines)..(FirstNewStart(lines) + p - 1)
                         \subseteq parsed.changed

\* C16 (amended): a '+' line marks the counter value as changed, increments
\* the counter and clears the pending-deletion flag, so a '-' run followed
\* by '+' lines and then a context line records no deletion marker.
C16_PlusClearsPending ==
    (Fetched /\ ~IsNone(gitParsed))
        => PlusClearsPending(DiffLines, ValueOf(gitParsed))

\* The context line records a marker at its counter - 1.
PlusKeepsPending(lines, parsed) ==
    IsHeaderLine(lines[1]) =>
        \A r, p \in 1..Len(lines) :
            MinusPlusContext(lines, r, p)
                => (FirstNewStart(lines) + p - 1) \in parsed.deletedAfter

\* C16 as stated: the flag survives the '+' lines and the context line
\* records a marker at its counter - 1.
C16_PlusKeepsPending ==
    (Fetched /\ ~IsNone(gitParsed))
        => PlusKeepsPending(DiffLines, ValueOf(gitParsed))

\* A header, a removed line, an added line and a context line were parsed.
C16_Witness ==
    /\ Fetched /\ ~IsNone(gitParsed)
    /\ IsHeaderLine(DiffLines[1])
    /\ MinusPlusContext(DiffLines, 1, 1)
    /\ ValueOf(gitParsed).changed = {FirstNewStart(DiffLines)}

(* ------------------------------ C17 ----------------------------------- *)
\* The k-th smallest element of a finite set of integers.
Nth(S, k) == SortedSeq(S)[k]

\* C17: on the large-file branch lcsA and lcsB have the same size, pairing
\* them in ascending order pairs lines of equal content, and each matched b
\* line sits on the earliest a position with its content that is greater
\* than the a position matched before it.
C17_GreedyCommonSubsequence ==
    (pc = "diffedLarge" /\ ~IsNone(lcsSetsOf)) =>
        LET a == SavedLines
            b == CurrentLines
            A == ValueOf(lcsSetsOf).lcsA
            B == ValueOf(lcsSetsOf).lcsB
        IN  /\ A \subseteq 0..(Len(a) - 1)
            /\ B \subseteq 0..(Len(b) - 1)
            /\ Cardinality(A) = Cardinality(B)
            /\ \A k \in 1..Cardinality(B) :
                  LET pa == Nth(A, k)
                      pb == Nth(B, k)
                      lastA == IF k = 1 THEN -1 ELSE Nth(A, k - 1)
                  IN  /\ At(a, pa) = At(b, pb)
                      /\ pa > lastA
                      /\ \A pos \in (lastA + 1)..(pa - 1) :
                            At(a, pos) # At(b, pb)
            /\ ValueOf(diff).changed = {j + 1 : j \in (0..(Len(b) - 1)) \ B}

\* Two lines were matched, one of which also occurs further down in a, and
\* the greedy match is shorter than a longest common subsequence.
C17_Witness ==
    /\ pc = "diffedLarge" /\ ~IsNone(lcsSetsOf)
    /\ Cardinality(ValueOf(lcsSetsOf).lcsB) = 2
    /\ \E k \in 1..2 :
          \E pos \in (Nth(ValueOf(lcsSetsOf).lcsA, k) + 1)..(Len(SavedLines) - 1) :
             At(SavedLines, pos) = At(CurrentLines, Nth(ValueOf(lcsSetsOf).lcsB, k))
    /\ LcsLength(SavedLines, CurrentLines) > 2

(* ------------------------------ C18 ----------------------------------- *)
IsChange(op) == op.type # "equal"

\* Number of equal ops a list of ops starts with.
LeadingEquals(hops) ==
    Least({k \in 0..Len(hops) : k = Len(hops) \/ IsChange(hops[k + 1])})

\* Number of equal ops a list of ops ends with.
TrailingEquals(hops) == LeadingEquals(Reverse(hops))

\* The places <<hunk, position>> an op of the script occupies in the hunks.
PlacesOf(op) ==
    {pl \in (1..Len(hunks)) \X (1..Len(ops)) :
        /\ pl[2] <= Len(hunks[pl[1]].ops)
        /\ hunks[pl[1]].ops[pl[2]] = op}

\* C18: every hunk of buildUnsavedDiff has a non-equal op, starts with at
\* most 3 and ends with at most 3 equal ops, and every insert or delete op
\* of the edit script is in exactly one hunk.
C18_HunkShape ==
    Built =>
        /\ \A h \in 1..Len(hunks) :
              /\ \E q \in 1..Len(hunks[h].ops) : IsChange(hunks[h].ops[q])
              /\ LeadingEquals(hunks[h].ops) <= ContextLines
              /\ TrailingEquals(hunks[h].ops) <= ContextLines
        /\ \A k \in 1..Len(ops) :
              IsChange(ops[k]) => Cardinality(PlacesOf(ops[k])) = 1

\* A change with more than 3 equal ops before it and after it: its hunk
\* keeps 3 on each side.
C18_Witness ==
    /\ Built
    /\ Len(hunks) = 1
    /\ LeadingEquals(ops) > ContextLines
    /\ TrailingEquals(ops) > ContextLines
    /\ LeadingEquals(hunks[1].ops) = ContextLines
    /\ TrailingEquals(hunks[1].ops) = ContextLines

(* ------------------------------ C19 ----------------------------------- *)
\* The values f[k] grow strictly with k.
StrictlyIncreasing(f) == \A x, y \in DOMAIN f : x < y => f[x] < f[y]

\* aIdx of the equal and delete ops, in list order.
AIdxs(script) ==
    LET sel == SelectSeq(script, IsADeleteOrEqual)
    IN  [k \in 1..Len(sel) |-> sel[k].aIdx]

\* bIdx of the equal and insert ops, in list order.
BIdxs(script) ==
    LET sel == SelectSeq(script, IsBInsertOrEqual)
    IN  [k \in 1..Len(sel) |-> sel[k].bIdx]

\* C19: in the op list of computeEditScript aIdx is strictly increasing
\* across the equal and delete ops, bIdx across the equal and insert ops,
\* and every equal op pairs equal lines a[aIdx] = b[bIdx].
C19_IndicesIncrease ==
    Built =>
        /\ StrictlyIncreasing(AIdxs(ops))
        /\ StrictlyIncreasing(BIdxs(ops))
        /\ \A k \in 1..Len(ops) :
              ops[k].type = "equal"
                  => At(SavedLines, ops[k].aIdx) = At(CurrentLines, ops[k].bIdx)

\* A script with a delete and two equal and two insert ops.
C19_Witness ==
    /\ Built
    /\ HasType(ops, "delete")
    /\ \A t \in {"equal", "insert"} :
          Cardinality({k \in 1..Len(ops) : ops[k].type = t}) >= 2

(* ------------------------------ C20 ----------------------------------- *)
\* The line is n or more grave accents, alone but for trailing whitespace.
BackticksAlone(line, n) ==
    /\ RunLength(line, 0, {Backtick}) >= n
    /\ AllSpaceFrom(line, RunLength(line, 0, {Backtick}))

\* The source has no front matter, its first fence line f has four or more
\* grave accents, and c is the first line after f of three or more grave
\* accents alone, with four or more of them.
LongFenceClosedAt(f, c) ==
    /\ Trim(At(SourceLines, 0)) # FrontmatterMark
    /\ RunLength(At(SourceLines, f), 0, {Backtick}) >= 4
    /\ \A k \in 0..(f - 1) : ~OpensFence(At(SourceLines, k))
    /\ f < c
    /\ BackticksAlone(At(SourceLines, c), 4)
    /\ \A k \in (f + 1)..(c - 1) : ~BackticksAlone(At(SourceLines, k), 3)

\* C20: a fence opened by a line of four or more grave accents is closed by
\* the next line of four or more grave accents alone, and the line after it
\* is highlighted as a plain markdown line again.  The markup then holds the
\* f lines before the fence, the fence line, the code block and the closing
\* line before that line.
C20_LongFenceCloses ==
    (Highlighted /\ ValueOf(highlighted).fn = "highlightMarkdown")
        => \A f, c \in 0..(Len(SourceLines) - 2) :
              (LongFenceClosedAt(f, c) /\ ~OpensFence(At(SourceLines, c + 1)))
                 => /\ Len(ValueOf(highlighted).htmlLines) >= f + 4
                    /\ ValueOf(highlighted).htmlLines[f + 4]
                          = highlightMarkdownLine(At(SourceLines, c + 1))

(* ------------------------------ C21 ----------------------------------- *)
FrontmatterSpan == SpanOpen("md-frontmatter")

HasFrontmatterSpan(htmlLine) ==
    \E k \in 1..Len(htmlLine) : htmlLine[k] = FrontmatterSpan

IsTrimmedMark(line) == Trim(line) = FrontmatterMark

IsExactMark(line) == line = FrontmatterMark

\* Index of the line that ends the front matter opened at line 0: the first
\* later mark, or the last line when there is none.
FrontmatterEnd(lines, IsMark(_)) ==
    Least({k \in 1..Len(lines) :
              k = Len(lines) \/ (k < Len(lines) /\ IsMark(At(lines, k)))})

\* Lines 0..e come out as front matter, one markup line each, and nothing
\* after them does.
FrontmatterUpTo(lines, htmlLines, e) ==
    /\ Len(htmlLines) >= e + 1
    /\ \A k \in 0..e : htmlLines[k + 1] = wrap("md-frontmatter", At(lines, k))
    /\ \A k \in (e + 2)..Len(htmlLines) : ~HasFrontmatterSpan(htmlLines[k])

\* The front-matter state of highlightMarkdown seen in its markup, for a
\* given test of the mark.
FrontmatterState(lines, htmlLines, IsMark(_)) ==
    IF IsMark(At(lines, 0))
    THEN FrontmatterUpTo(lines, htmlLines,
                         IF FrontmatterEnd(lines, IsMark) = Len(lines)
                         THEN Len(lines) - 1
                         ELSE FrontmatterEnd(lines, IsMark))
    ELSE \A k \in 1..Len(htmlLines) : ~HasFrontmatterSpan(htmlLines[k])

\* C21 (amended): the front-matter state is entered only at line 0 and only
\* if that line, with the whitespace around it removed, is "---"; it is
\* left on the next line that is "---" after the same trimming and never
\* entered again, and while it is active every line is put out as front
\* matter, none as a code fence or a markdown line.
C21_FrontmatterTrimmed ==
    (Highlighted /\ ValueOf(highlighted).fn = "highlightMarkdown")
        => FrontmatterState(SourceLines, ValueOf(highlighted).htmlLines,
                            IsTrimmedMark)

\* C21 as stated: the state is entered only if line 0 is exactly "---" and
\* left on the next line equal to "---".
C21_FrontmatterExact ==
    (Highlighted /\ ValueOf(highlighted).fn = "highlightMarkdown")
        => FrontmatterState(SourceLines, ValueOf(highlighted).htmlLines,
                            IsExactMark)

\* Front matter that holds a fence line and is closed at the third line; the
\* mark on the fourth line is a thematic break.
C21_Witness ==
    /\ Highlighted /\ ValueOf(highlighted).fn = "highlightMarkdown"
    /\ Len(SourceLines) = 4
    /\ IsTrimmedMark(SourceLines[1])
    /\ OpensFence(SourceLines[2])
    /\ IsTrimmedMark(SourceLines[3])
    /\ SourceLines[4] = FrontmatterMark
    /\ ValueOf(highlighted).htmlLines[2] = wrap("md-frontmatter", SourceLines[2])
    /\ ValueOf(highlighted).htmlLines[4] = wrap("md-hr", SourceLines[4])

(* ------------------------------ C22 ----------------------------------- *)
\* Index of the first element of html from k on that is in S, or
\* Len(html) + 1.
NextIn(html, k, S) ==
    Least({j \in k..(Len(html) + 1) : j = Len(html) + 1 \/ html[j] \in S})

Token(tag, text) == [tag |-> tag, text |-> text]

RECURSIVE TokensFrom(_, _)
\* The tokens of the markup of highlightInline from element k on: a styled
\* span is its opening tag with its unescaped text, a plain run has the
\* tag "".
TokensFrom(html, k) ==
    IF k > Len(html) THEN <<>>
    ELSE IF html[k] \in HlTags
    THEN <<Token(html[k],
                 Unescape(SubSeq(html, k + 1,
                                 NextIn(html, k, {SpanClose}) - 1)))>>
         \o TokensFrom(html, NextIn(html, k, {SpanClose}) + 1)
    ELSE <<Token("", Unescape(SubSeq(html, k, NextIn(html, k, HlTags) - 1)))>>
         \o TokensFrom(html, NextIn(html, k, HlTags))

\* The indices of rem at which some inline rule matches.
MatchStarts(rem) ==
    {i \in 0..(Len(rem) - 1) :
        \E r \in 1..Len(INLINE_RULES) : RuleAt(r, rem, i) > 0}

\* The earliest rule in priority order that matches at index i.
FirstRuleAt(rem, i) ==
    Least({r \in 1..Len(INLINE_RULES) : RuleAt(r, rem, i) > 0})

RECURSIVE ExpectedTokens(_)
\* The plain run before the match at index i, the span of rule r there,
\* and the tokens of what follows the match.
ExpectedStep(rem, i, r) ==
    (IF i > 0 THEN <<Token("", Slice(rem, 0, i))>> ELSE <<>>)
    \o <<Token(SpanOpen(INLINE_RULES[r]),
                Slice(rem, i, i + RuleAt(r, rem, i)))>>
    \o ExpectedTokens(Slice(rem, i + RuleAt(r, rem, i), Len(rem)))

\* The tokens of a line when at each step the match with the smallest start
\* index is taken, the earliest rule winning among the matches that start
\* there, and what no rule matches is one plain run.
ExpectedTokens(rem) ==
    IF Len(rem) = 0 THEN <<>>
    ELSE IF MatchStarts(rem) = {} THEN <<Token("", rem)>>
    ELSE ExpectedStep(rem, Least(MatchStarts(rem)),
                      FirstRuleAt(rem, Least(MatchStarts(rem))))

RECURSIVE ConcatTexts(_)
ConcatTexts(toks) ==
    IF Len(toks) = 0 THEN <<>> ELSE toks[1].text \o ConcatTexts(Tail(toks))

\* The tokens are those of the leftmost-match rule, none is empty and their
\* texts, put together in order, are the line.
InlineTokensOf(line, toks) ==
    /\ toks = ExpectedTokens(line)
    /\ \A k \in 1..Len(toks) : Len(toks[k].text) >= 1
    /\ ConcatTexts(toks) = line

\* C22: highlightInline returns, its tokens do not overlap and cover the
\* line: every token holds at least one character and the unescaped texts
\* of the plain runs and styled spans, in order, are the line; each styled
\* span is the match with the smallest start index in what was left of the
\* line, of the earliest rule in priority order that matches there.
C22_InlineTokens ==
    (Highlighted /\ ValueOf(highlighted).fn = "highlightInline")
        => InlineTokensOf(currentContent, TokensFrom(Html, 1))

\* A line where the last rule (italic) matches at index 0 and the first rule
\* (inline code) matches at index 1, inside the italic match: the italic
\* span is emitted and what is left of the line is a plain run.
C22_Witness ==
    /\ Highlighted /\ ValueOf(highlighted).fn = "highlightInline"
    /\ Len(currentContent) = 4
    /\ ItalicAt(currentContent, 0) = 3
    /\ CodeInlineAt(currentContent, 1) = 3
    /\ TokensFrom(Html, 1)
         = <<Token(SpanOpen("md-italic"), Slice(currentContent, 0, 3)),
             Token("", Slice(currentContent, 3, 4))>>

(* ------------------------------ C23 ----------------------------------- *)
\* The timer that unsavedTimerRef names, for the change that has just been
\* made.
TimerOfChange ==
    [id |-> ValueOf(unsavedTimer'), savedContent |-> savedContent,
     markdown |-> currentContent']

\* The markers after the step are those of computeChangedLines on what the
\* timer t holds.
RunsOn(t) ==
    [changed |-> unsavedLines', deletedAfter |-> unsavedDeleted']
        = computeChangedLines(t.savedContent, t.markdown)

\* C23: at most one timer is pending at any time; a content change leaves
\* exactly one pending, the one of that change, whatever was pending
\* before, and no other step sets a timer; so after a burst of changes the
\* callback runs once, on the content of the last change, and no timer is
\* left.
C23_Debounce ==
    [][/\ Cardinality(timeouts') <= 1
       /\ HandleSourceChange => timeouts' = {TimerOfChange}
       /\ ~HandleSourceChange => timeouts' \subseteq timeouts
       /\ UnsavedTimerFires =>
             /\ timeouts' = {}
             /\ \A t \in timeouts : RunsOn(t)]_vars

\* The timer of the last change has run: none is pending, unsavedTimerRef
\* still names it, and the markers are those of the current content.
C23_Witness ==
    /\ pc = "app"
    /\ timeouts = {}
    /\ ~IsNone(unsavedTimer)
    /\ IsNone(saving)
    /\ unsavedLines # {}
    /\ unsavedDeleted # {}
    /\ [changed |-> unsavedLines, deletedAfter |-> unsavedDeleted]
         = computeChangedLines(savedContent, currentContent)

(* ------------------------------ C24 ----------------------------------- *)
\* C24: whenever no debounce timer is pending and no save is in flight, the
\* stored unsaved lines and deletions are those of
\* computeChangedLines(savedContent, current content); a load in flight has
\* changed nothing yet, so every state is one without a load in flight.
C24_QuiescentConsistency ==
    (pc = "app" /\ timeouts = {} /\ IsNone(saving))
        => [changed |-> unsavedLines, deletedAfter |-> unsavedDeleted]
              = computeChangedLines(savedContent, currentContent)

(* ------------------------------ C25 ----------------------------------- *)
\* C25: when handleSave completes, savedContent is the body that this save
\* sent to saveNote after the front matter.
C25_SavedIsSent ==
    [][SaveNoteResolves
          => ValueOf(saving).frontmatterRaw \o savedContent'
                = ValueOf(saving).content]_vars

(* ------------------------------ C26 ----------------------------------- *)
\* The popup text is there and one of its lines is line, added.
HasAddedLine(text, line) ==
    /\ ~IsNone(text)
    /\ \E t \in {Split(ValueOf(text))} :
          \E k \in 1..Len(t) : t[k] = <<"+">> \o line

\* Every line of changed has a hunk of hs that shows it as added.
ChangedCovered(changed, hs, a, b) ==
    \A L \in changed :
        HasAddedLine(hunkTextFor(hs, a, b, L, FALSE), At(b, L - 1))

\* C26: on either branch of computeChangedLines, for every line L of its
\* changed set buildUnsavedDiff(baseline, current, L, false) is not null and
\* its text holds the current line L as an added line.
C26_ChangedLineCovered ==
    pc \in {"diffed", "diffedLarge"}
        => \E a \in {Split(savedContent)}, b \in {Split(currentContent)} :
              ChangedCovered(ValueOf(diff).changed,
                             groupHunks(computeEditScript(a, b), Len(b)), a, b)

(* ------------------------------ C27 ----------------------------------- *)
\* The bIdx of the first equal op of script after position k, or bLen: the
\* gap at which computeChangedLines marks a line removed at position k.
GapOfDelete(script, k, bLen) ==
    IF \E j \in (k + 1)..Len(script) : script[j].type = "equal"
    THEN script[Least({j \in (k + 1)..Len(script) :
                          script[j].type = "equal"})].bIdx
    ELSE bLen

\* Hunk h holds a delete op of script whose removed line is marked at gap g.
HoldsDeletionAt(h, script, g, bLen) ==
    \E k \in 1..Len(script) :
        /\ script[k].type = "delete"
        /\ GapOfDelete(script, k, bLen) = g
        /\ \E i \in 1..Len(h.ops) : h.ops[i] = script[k]

\* The hunk matched for the deletion marker at gap g is there and holds the
\* deletion of that gap.
GapCovered(hs, script, g, bLen) ==
    /\ matchedHunk(hs, g, TRUE) # 0
    /\ HoldsDeletionAt(hs[matchedHunk(hs, g, TRUE)], script, g, bLen)

\* C27: on the exact branch, for every gap g of deletedAfter
\* buildUnsavedDiff(baseline, current, g, true) returns the hunk that holds
\* the removed lines marked at gap g, so its text has a removed line.
C27_DeletionGapCovered ==
    pc = "diffed"
        => \E a \in {Split(savedContent)}, b \in {Split(currentContent)} :
              \E script \in {computeEditScript(a, b)} :
                 \A g \in ValueOf(diff).deletedAfter :
                    GapCovered(groupHunks(script, Len(b)), script, g, Len(b))

(* ------------------------------ C30 ----------------------------------- *)
\* The integers from..to in increasing order.
Consecutive(from, to) == [k \in 1..(to - from + 1) |-> from + k - 1]

\* C30: every hunk of buildUnsavedDiff has 0 <= bStart <= bEnd <=
\* b.length - 1, the bIdx values of its equal and insert ops are the
\* integers bStart..bEnd in order, and no hunk has the anchor
\* bStart = bEnd = b.length.
C30_HunkRange ==
    Built =>
        \A h \in 1..Len(hunks) :
            /\ 0 <= hunks[h].bStart
            /\ hunks[h].bStart <= hunks[h].bEnd
            /\ hunks[h].bEnd <= Len(CurrentLines) - 1
            /\ BIdxs(hunks[h].ops)
                  = Consecutive(hunks[h].bStart, hunks[h].bEnd)

\* A hunk that starts with a removed line, so that its bStart comes from
\* the look-ahead, and that ends with a removed line after a context line.
C30_Witness ==
    /\ Built
    /\ Len(hunks) = 1
    /\ Len(hunks[1].ops) >= 3
    /\ hunks[1].ops[1].type = "delete"
    /\ hunks[1].ops[Len(hunks[1].ops)].type = "delete"
    /\ \E k \in 1..Len(hunks[1].ops) : hunks[1].ops[k].type = "equal"
    /\ hunks[1].bStart = 0

(* ------------------------------ C28 ----------------------------------- *)
\* The hunk of the diff text the lookup of extractHunkForLine takes for
\* fileLine, 0 if none: the first whose new range, widened by one line on
\* either side, holds it.
GitHunkFor(hs, fileLine) ==
    LET S == {k \in 1..Len(hs) :
                 HunkInRange([startNew |-> hs[k].newStart,
                              countNew |-> hs[k].newCount], fileLine)}
    IN  IF S = {} THEN 0 ELSE Least(S)

\* The popup's lines are the header of hunk h and every body line of it, in
\* order and as printed; the empty line that ends the diff text may follow.
ShowsWholeHunk(popupLines, h) ==
    \/ popupLines = HunkLines(h)
    \/ popupLines = HunkLines(h) \o << <<>> >>

\* C28: the text extractHunkForLine returns is the header of the hunk it
\* matched followed by every added, removed and context line of that hunk,
\* in order and unmodified.
C28_WholeHunk ==
    (pc = "clicked" /\ ~IsNone(diffPopup))
        => \E k \in {GitHunkFor(gitHunks,
                                 ValueOf(click)
                                 + frontmatterLineCount(frontmatterRaw))} :
              /\ k > 0
              /\ ShowsWholeHunk(Split(ValueOf(diffPopup)), gitHunks[k])

(* ------------------------------ C29 ----------------------------------- *)
\* C29: the markup of highlightMarkdown has as many lines as the source,
\* the code tokenizer keeping the number of lines of each block.
C29_SameLineCount ==
    (Highlighted /\ ValueOf(highlighted).fn = "highlightMarkdown")
        => Len(Split(Html)) = Len(SourceLines)

====
